---- MODULE Spec2Model ----
(***************************************************************************)
(* Model of the pss node (package pss, type Pss): forward cache, key       *)
(* registry, handshake branch of Process, dispatcher and forwarder.        *)
(*                                                                         *)
(* Conventions                                                             *)
(*  - a []byte is a sequence of bytes; Go's nil slice and the empty slice  *)
(*    are both the empty sequence (bytes.Equal and len do not tell them    *)
(*    apart, and nothing in the package compares a slice with nil);        *)
(*  - a pot.Address is a fixed-width byte array, scaled here to one byte;  *)
(*  - time.Time is a natural number, 0 being the zero Time;                *)
(*  - a Go map is a function whose DOMAIN is the set of keys present;      *)
(*  - an error value is a string, Nil being the nil error, and a run-time  *)
(*    panic (nil pointer dereference) is the result Panic;                 *)
(*  - a goroutine inside a call is a record with the statement it executes *)
(*    next; one step of the model is one statement that reads or writes    *)
(*    memory other goroutines reach, with the local statements before it;  *)
(*  - an unsynchronised access that meets a write of another goroutine is  *)
(*    a choice over what the build can do with it: the access as written,  *)
(*    the runtime ending the process (Fatal), a torn value of a            *)
(*    multi-word field.                                                    *)
(***************************************************************************)
EXTENDS Integers, Sequences, FiniteSets, TLC

\* ------------------------------------------------------------------ bounds
MaxTime == 3          \* the clock runs from 1 to MaxTime
Cachettl == 1         \* PssParams.Cachettl, in clock ticks
SymKeyValidity == 1   \* time.Hour * 24 * 365, in clock ticks
MaxKeys == 2          \* symkey ids the whisper backend issues per node
MaxHandlers == 3      \* Register calls per node
MaxRead == 2          \* messages a ReadMsg task reads from one channel
MaxInFlight == 2      \* goroutines of a node that are inside a call at one time

\* ---------------------------------------------------------------- universe
NilBytes == << >>
ZeroAddr == <<0>>
NodeA == <<1>>
NodeB == <<2>>
PeerC == <<3>>
PeerD == <<6>>
RecipR == <<7>>
Nodes == {NodeA, NodeB}
\* the peers that may connect to a node on the pss routing layer
Neighbours(n) == IF n = NodeA THEN {NodeB, PeerC, PeerD} ELSE {NodeA}
Topics == {"T1", "T2"}
RawKeys == {"ka", "kb"}
BadRawKey == "short"
ZeroPubKey == "zero"
\* an ecdsa.PublicKey read while it is written: words of the old value next
\* to words of the new one
TornPubKey == "torn"
PubKeyOf(n) == IF n = NodeA THEN "pubA" ELSE IF n = NodeB THEN "pubB" ELSE "pubX"
Nil == "nil"
Panic == "panic"
\* the runtime ends the process: "concurrent map read and map write",
\* "concurrent map writes", or a fault on a torn slice header
Fatal == "fatal error"
\* log.Crit: the message is logged and the process exits
Exit == "exit"
\* a call that never returns: it waits for a mutex its own goroutine holds
Deadlock == "deadlock"
EmptyId == 0
ZeroTime == 0
NoRW == << >>

\* ------------------------------------------------------------ Go helpers
MapPut(f, k, v) == [x \in (DOMAIN f) \cup {k} |-> IF x = k THEN v ELSE f[x]]
MapDel(f, k) == [x \in (DOMAIN f) \ {k} |-> f[x]]
EmptyMap == [x \in {} |-> 0]
bytesEqual(a, b) == a = b
\* copy(potaddr[:], to): the array keeps its width; a short source leaves
\* the tail zero, a long one is cut
copyToAddr(b) == [i \in 1..Len(ZeroAddr) |-> IF i <= Len(b) THEN b[i] ELSE 0]
After(t, u) == t > u
Before(t, u) == t < u
IsZero(t) == t = ZeroTime

\* ------------------------------------------------------- overlay (Kademlia)
RECURSIVE Xor(_, _)
Xor(a, b) == IF a = 0 /\ b = 0 THEN 0
             ELSE (IF (a % 2) = (b % 2) THEN 0 ELSE 1) + 2 * Xor(a \div 2, b \div 2)
RECURSIVE AddrInt(_)
AddrInt(a) == IF a = << >> THEN 0
              ELSE a[Len(a)] + 256 * AddrInt(SubSeq(a, 1, Len(a) - 1))
RECURSIVE BitLen(_)
BitLen(x) == IF x = 0 THEN 0 ELSE 1 + BitLen(x \div 2)
\* the XOR distance and the proximity order (number of leading bits two
\* addresses share), tabulated over the addresses of the model
Addrs == {ZeroAddr, NodeA, NodeB, PeerC, PeerD, RecipR}
DistTable == [a \in Addrs, b \in Addrs |-> Xor(AddrInt(a), AddrInt(b))]
Dist(a, b) == DistTable[a, b]
ProxTable == [a \in Addrs, b \in Addrs |-> 8 * Len(ZeroAddr) - BitLen(DistTable[a, b])]
Prox(a, b) == ProxTable[a, b]
RECURSIVE SortByDist(_, _)
SortByDist(S, target) ==
    IF S = {} THEN << >>
    ELSE LET m == CHOOSE x \in S : \A y \in S : Dist(x, target) <= Dist(y, target)
         IN <<m>> \o SortByDist(S \ {m}, target)
\* the second argument of EachConn at line 541
MaxConns == 256
\* Overlay.EachConn(base, max, f): the connections the overlay holds (conns:
\* peer -> whether its connection type implements senderPeer), at most max
\* of them, by increasing distance to base, each with its proximity-bin flag
EachConn(conns, base, max, depth) ==
    LET order == SortByDist(DOMAIN conns, base)
        n == IF Len(order) < max THEN Len(order) ELSE max
    IN [i \in 1..n |->
           [addr |-> order[i], isproxbin |-> Prox(order[i], base) >= depth,
            sender |-> conns[order[i]]]]

\* --------------------------------------------------- whisper (envelope codec)
\* An envelope: Topic, how it is sealed (enc), the key that opens it (the raw
\* symkey, or the public key it is sealed to), the signer (Src) and the
\* plaintext.  A plaintext is [kind, From, Key, body]: kind "keymsg" is the
\* serialized pssKeyMsg{From, Key}, kind "data" is any other byte payload.
\* kind "proto" is the serialized ProtocolMsg{Code, Size, Payload} of the
\* bridge, body = <<Code, Size, Payload>>
ProtoPayload(code, size, data) ==
    [kind |-> "proto", From |-> NilBytes, Key |-> "", body |-> <<code, size, data>>]
DataPayload(body) == [kind |-> "data", From |-> NilBytes, Key |-> "", body |-> body]
KeyPayload(from, key) == [kind |-> "keymsg", From |-> from, Key |-> key, body |-> ""]
ZeroEnv == [key |-> "", Topic |-> "", enc |-> "", Src |-> "",
            payload |-> [kind |-> "", From |-> NilBytes, Key |-> "", body |-> ""]]
Unsigned == "unsigned"
BadSig == "badsig"

\* w.AddSymKeyDirect(key): rejects a key of the wrong size, else stores the
\* key under a fresh id
AddSymKeyDirect(s, key) ==
    IF key = BadRawKey
    THEN [s |-> s, id |-> EmptyId, err |-> "wrong key size"]
    ELSE LET id == Cardinality(DOMAIN s.symKeys) + 1
         IN [s |-> [s EXCEPT !.symKeys = MapPut(s.symKeys, id, key)],
             id |-> id, err |-> Nil]
\* w.GenerateSymKey(): a fresh random key under a fresh id
GenerateSymKey(s, e) == AddSymKeyDirect(s, e.genkey)
\* w.GetSymKey(id)
GetSymKey(s, id) ==
    IF id \in DOMAIN s.symKeys THEN [key |-> s.symKeys[id], err |-> Nil]
    ELSE [key |-> "", err |-> "non-existent key ID"]
\* env.OpenSymmetric(key)
OpenSymmetric(env, key) == env.enc = "sym" /\ env.key = key
\* env.OpenAsymmetric(privatekey)
OpenAsymmetric(env, pub) == env.enc = "asym" /\ env.key = pub
\* recvmsg.Validate()
Validate(env) == env.Src # BadSig
\* whisper.NewSentMessage(wparams) and woutmsg.Wrap(wparams): sealing to a
\* public key needs a valid (non-zero) key
Wrap(wparams) ==
    IF wparams.Dst # "none"
    THEN IF wparams.Dst = ZeroPubKey
         THEN [err |-> "invalid public key provided for asymmetric encryption",
               env |-> ZeroEnv]
         ELSE [err |-> Nil,
               env |-> [key |-> wparams.Dst, Topic |-> wparams.Topic, enc |-> "asym",
                        Src |-> wparams.Src, payload |-> wparams.Payload]]
    ELSE [err |-> Nil,
          env |-> [key |-> wparams.KeySym, Topic |-> wparams.Topic, enc |-> "sym",
                   Src |-> wparams.Src, payload |-> wparams.Payload]]

\* keymsgraw.(*pssKeyMsg): keymsgraw holds recvmsg.Payload, a byte slice, so
\* its dynamic type is []byte whatever the bytes spell
DynamicType(payload) == "[]byte"
AssertPssKeyMsg(payload) ==
    [keymsg |-> payload, ok |-> DynamicType(payload) = "*pssKeyMsg"]


\* ------------------------------------------------------------- results
PssMsg(to, env) == [Payload |-> env, To |-> to]
NoRoute == "unable to forward to any peers"

\* ------------------------------------------------------------ forward cache
\* pssDigest{}: the all-zero digest
ZeroDigest == <<NilBytes, ZeroEnv>>
pssCacheEntry == [expiresAt |-> ZeroTime, receivedFrom |-> NilBytes]
\* dpa.Store: the content key of the serialized message
dpaStore(msg) == <<msg.To, msg.Payload>>
\* a variant that still tells messages apart when the store fails
storeMsgDistinct(msg, e) ==
    IF e.storeOK THEN [err |-> Nil, digest |-> dpaStore(msg)]
    ELSE [err |-> "store", digest |-> dpaStore(msg)]

storeMsg(msg, e) ==
    IF e.storeOK THEN [err |-> Nil, digest |-> dpaStore(msg)]
    ELSE [err |-> "store", digest |-> ZeroDigest]

\* a variant that starts from a fresh entry whatever the cache holds
addFwdCacheSenderFresh(s, addr, digest) ==
    [s EXCEPT !.fwdcache =
        MapPut(s.fwdcache, digest, [pssCacheEntry EXCEPT !.receivedFrom = addr])]

addFwdCacheSender(s, addr, digest) ==
    LET entry == IF digest \in DOMAIN s.fwdcache THEN s.fwdcache[digest]
                 ELSE pssCacheEntry
    IN [s EXCEPT !.fwdcache =
           MapPut(s.fwdcache, digest, [entry EXCEPT !.receivedFrom = addr])]

\* a variant that starts from a fresh entry whatever the cache holds
addFwdCacheExpireFresh(s, digest, now) ==
    [s EXCEPT !.fwdcache =
        MapPut(s.fwdcache, digest, [pssCacheEntry EXCEPT !.expiresAt = now + Cachettl])]

\* a variant that forgets the ttl
addFwdCacheExpireNoTtl(s, digest, now) ==
    LET entry == IF digest \in DOMAIN s.fwdcache THEN s.fwdcache[digest]
                 ELSE pssCacheEntry
    IN [s EXCEPT !.fwdcache =
           MapPut(s.fwdcache, digest, [entry EXCEPT !.expiresAt = now])]

addFwdCacheExpire(s, digest, now) ==
    LET entry == IF digest \in DOMAIN s.fwdcache THEN s.fwdcache[digest]
                 ELSE pssCacheEntry
    IN [s EXCEPT !.fwdcache =
           MapPut(s.fwdcache, digest, [entry EXCEPT !.expiresAt = now + Cachettl])]

\* a variant that matches the sender whether or not an expiry is set
checkFwdCacheAnySender(s, addr, digest, now) ==
    IF digest \in DOMAIN s.fwdcache
    THEN LET entry == s.fwdcache[digest]
         IN IF After(entry.expiresAt, now) THEN TRUE
            ELSE IF bytesEqual(addr, entry.receivedFrom) THEN TRUE
                 ELSE FALSE
    ELSE FALSE

checkFwdCache(s, addr, digest, now) ==
    IF digest \in DOMAIN s.fwdcache
    THEN LET entry == s.fwdcache[digest]
         IN IF After(entry.expiresAt, now) THEN TRUE
            ELSE IF IsZero(entry.expiresAt) /\ bytesEqual(addr, entry.receivedFrom)
                 THEN TRUE
                 ELSE FALSE
    ELSE FALSE

\* ------------------------------------------------------------- goroutines
\* The goroutines of a node that are inside a call of Pss: the read loop
\* that Run started for a neighbour (g is the neighbour), or a caller of the
\* API (g is empty).  A goroutine is the call it was started for (op, arg,
\* and e: what the overlay, the transport, the chunk store and the whisper
\* backend will answer it: the depth of the overlay, a transport that takes
\* every message ("up"), none ("down") or some ("any"), a store that works,
\* the key the backend generates, and whether the messages sent travel to
\* the other modelled node), the statement it executes next (pc, the line of the shared
\* access that ends the step), the call sites it returns to (stack),
\* whether it holds Pss.lock (in), the local variables of the functions it
\* is in, and what the call has done so far (out): the messages handed to
\* the transport (sends), the handlers invoked (calls) and those the map
\* held when the range over it began (held), the fan-out path
\* taken (fwd: the digest storeMsg gave and the time it gave it (at),
\* whether the flood guard dropped it, the peers EachConn lists, what became
\* of each peer visited, and what Forward returned) and the inbound symkey
\* that opened the message with the sender Process took (opened).
Tasks == 1..MaxInFlight
NoOut == [sends |-> << >>, calls |-> << >>, held |-> << >>, fwd |-> << >>,
          opened |-> << >>]
Env(depth, up, storeOK, genkey, wired) ==
    [depth |-> depth, genkey |-> genkey, storeOK |-> storeOK, up |-> up, wired |-> wired]
NoEnv == Env(0, "up", TRUE, "ka", FALSE)
NoRWriter == [To |-> NilBytes, topic |-> ""]
\* the frame of a goroutine that runs nothing. The fields of a frame:
\*   Forward: msg, digest, the peers EachConn yields (iter), the turn of
\*     the callback (i), sent; psp: whether pp, read at 549, is non-nil
\*   Process: msg, the slice the range of line 365 runs over (iter) and its
\*     turn (i)
\*   SendSym, SendAsym, send: to, payload; psp: whether the pointer read at
\*     454 / 478 is non-nil
\*   the key installers, isSecured, isActive, AddPeer, Handle: addr / id,
\*     topic, key, and the id AddSymKeyDirect gave
\*   the handler loop: the map getHandlers returned (omap), the handlers it
\*     held when the range began (start), the handlers called
\*   Handle, injectMsg: the PssReadWriter (rw) and the p2p.Msg (pmsg)
\*   pre: what the call found when it began (for the properties)
IdleTask ==
    [i |-> 0, addr |-> ZeroAddr, key |-> "", payload |-> DataPayload(""), id |-> EmptyId,
     e |-> NoEnv, to |-> NilBytes, msg |-> PssMsg(NilBytes, ZeroEnv), digest |-> ZeroDigest,
     topic |-> "", op |-> "idle", g |-> NilBytes, arg |-> << >>, pc |-> "", stack |-> << >>,
     in |-> FALSE, iter |-> << >>, sent |-> 0, psp |-> FALSE, omap |-> 0, start |-> {},
     called |-> {}, rw |-> NoRWriter, pmsg |-> << >>, pre |-> << >>, out |-> NoOut]

\* what one step leaves: the node state, the goroutine, and whether the
\* call goes on ("run"), has returned ret ("done"), has ended the process
\* with ret = Panic, Fatal or Exit ("crash"), or waits for ever ("dead")
Goto(s, k, pc) == [k |-> [k EXCEPT !.pc = pc], s |-> s, st |-> "run", ret |-> Nil]
Done(s, k, ret) == [k |-> k, s |-> s, st |-> "done", ret |-> ret]
Dies(s, k, how) == [k |-> k, s |-> s, st |-> "crash", ret |-> how]
Blocks(s, k) == [k |-> k, s |-> s, st |-> "dead", ret |-> Deadlock]

isSelfRecipient(s, msg) == bytesEqual(msg.To, s.self)

\* a call of Forward(msg): line 519 sends a message for this node to
\* Process; for any other the next statement is storeMsg (525)
EnterForward(s, k, msg) ==
    Goto(s, [k EXCEPT !.msg = msg], IF isSelfRecipient(s, msg) THEN "365" ELSE "525")
\* a call of isSecured(id, topic) from the line site
EnterIsSecured(s, k, id, topic, site) ==
    Goto(s, [k EXCEPT !.addr = id, !.topic = topic, !.stack = <<site>> \o @], "634")
\* a call of SendSym(to, topic, msg) from the line site: 449-451
EnterSendSym(s, k, to, topic, msg, site) ==
    EnterIsSecured(s, [k EXCEPT !.to = to, !.payload = msg,
                                !.stack = IF site = "" THEN @ ELSE <<site>> \o @],
                   copyToAddr(to), topic, "451")
\* a call of a key installer from the line site
EnterKeyCall(s, k, op, addr, topic, key, site) ==
    Goto(s, [k EXCEPT !.addr = addr, !.topic = topic, !.key = key, !.id = EmptyId,
                      !.stack = (IF op = "AddPublicKey" THEN <<"201">> ELSE << >>)
                                \o (IF site = "" THEN << >> ELSE <<site>>) \o @],
         IF op = "AddPublicKey" THEN "601"
         ELSE IF op = "SetIncomingSymmetricKey" THEN "212" ELSE "234")

\* ToP2pMsg: the p2p.Msg of a serialized ProtocolMsg
ToP2pMsg(msg) ==
    IF msg.kind # "proto" THEN [err |-> "decode", msg |-> << >>]
    ELSE [err |-> Nil,
          msg |-> [Payload |-> msg.body[3], Code |-> msg.body[1], Size |-> Len(msg.body[3])]]

\* Handle from line 731 on: ToP2pMsg, then the lookup of the PssReadWriter
Handle731(s, k) ==
    LET pmsg == ToP2pMsg(k.payload)
    IN IF pmsg.err # Nil THEN [k |-> k, st |-> "ret", ret |-> "could not decode pssmsg"]
       ELSE [k |-> [k EXCEPT !.pmsg = pmsg.msg, !.pc = "736"], st |-> "go", ret |-> Nil]

\* the function the goroutine is in returns val: the call is over, or the
\* caller goes on from the call site
RECURSIVE Return(_, _, _)
Return(s, k, val) ==
    IF k.stack = << >> THEN Done(s, k, val)
    ELSE LET site == Head(k.stack)
             k1 == [k EXCEPT !.stack = Tail(@)]
             env == k.msg.Payload
         IN CASE site = "201" -> Goto(s, k1, "205")
              [] site = "216" -> Goto(s, k1, "219")
              [] site = "238" -> Goto(s, k1, "242")
              [] site = "398" ->
                    IF val # Nil
                    THEN Return(s, k1, "received invalid symkey in pss handshake")
                    ELSE EnterIsSecured(s, k1, k1.addr, env.Topic, "405")
              [] site = "405" ->
                    IF val = "true" THEN Return(s, k1, Nil) ELSE Goto(s, k1, "406")
              [] site = "414" ->
                    IF val # Nil THEN Return(s, k1, "could not set recvkey")
                    ELSE EnterSendSym(s, k1, env.payload.From, env.Topic,
                                      DataPayload(k1.key), "418")
              \* 418: what SendSym returned is dropped; 444
              [] site = "418" -> Return(s, k1, Nil)
              [] site = "423" ->
                    IF val = "true" THEN Goto(s, k1, "427") ELSE Return(s, k1, Nil)
              [] site = "436" ->
                    IF val # Nil THEN Return(s, k1, val) ELSE Goto(s, k1, "435")
              [] site = "451" ->
                    IF val = "true" THEN Goto(s, k1, "454")
                    ELSE Return(s, k1, "missing complete handshake")
              [] site = "586" -> Goto(s, k1, "587")
              [] site = "720" ->
                    IF val = "true"
                    THEN LET h == Handle731(s, k1)
                         IN IF h.st = "ret" THEN Return(s, k1, h.ret)
                            ELSE Goto(s, h.k, h.k.pc)
                    ELSE Goto(s, [k1 EXCEPT !.stack = <<"728">> \o @], "584")
              \* 737: injectMsg has returned; 739
              [] site = "737" -> Return(s, k1, Nil)
              [] site = "728" ->
                    LET h == Handle731(s, k1)
                    IN IF h.st = "ret" THEN Return(s, k1, h.ret)
                       ELSE Goto(s, h.k, h.k.pc)
              [] OTHER -> Done(s, k1, val)

\* -------------------------------------------------------------- key registry
pssPeer == [rw |-> NoRW, pubkey |-> ZeroPubKey, recvsymkey |-> EmptyId,
            sendsymkey |-> EmptyId, symkeyexpires |-> ZeroTime]

\* peerPool[id][topic] is a non-nil *pssPeer
HasPeer(s, id, topic) == id \in DOMAIN s.peerPool /\ topic \in DOMAIN s.peerPool[id]

\* preparePeerTopic(id, topic), one write at a time, the mutex held from
\* 598 to the return.  A goroutine that already holds the mutex (AddPeer,
\* 584) waits at 598 for itself.
preparePeerTopic(s, k) ==
    IF k.pc = "601"
    THEN IF k.in THEN Blocks(s, k)
         ELSE Goto(IF k.addr \in DOMAIN s.peerPool THEN s
                   ELSE [s EXCEPT !.peerPool = MapPut(@, k.addr, EmptyMap)],
                   [k EXCEPT !.in = TRUE], "606")
    ELSE Return(IF k.topic \in DOMAIN s.peerPool[k.addr] THEN s
                ELSE [s EXCEPT !.peerPool[k.addr] = MapPut(@, k.topic, pssPeer)],
                [k EXCEPT !.in = FALSE], Nil)

\* AddPublicKey, SetIncomingSymmetricKey and SetOutgoingSymmetricKey: the
\* statement at k.pc.  w.AddSymKeyDirect takes no lock of Pss;
\* preparePeerTopic takes Pss.lock and releases it; the function then takes
\* it again, reads psp from peerPool and writes through it, one field at a
\* time, with recvsymkeys and reverseKeyPool in between.
KeyCallStep(s, k) ==
    LET gone == ~HasPeer(s, k.addr, k.topic)
    IN CASE k.pc \in {"212", "234"} ->
               LET a == AddSymKeyDirect(s, k.key)
               IN IF a.err # Nil THEN Return(s, k, a.err)
                  ELSE Goto(a.s, [k EXCEPT !.id = a.id,
                                           !.stack = <<IF k.pc = "212" THEN "216"
                                                       ELSE "238">> \o @], "601")
         [] k.pc = "205" ->
               IF gone THEN Dies(s, k, Panic)
               ELSE Return([s EXCEPT !.peerPool[k.addr][k.topic].pubkey = k.key], k, Nil)
         [] k.pc = "219" ->
               Goto([s EXCEPT !.recvsymkeys = Append(@, k.id)], [k EXCEPT !.in = TRUE], "221")
         [] k.pc = "221" ->
               IF gone THEN Dies(s, k, Panic)
               ELSE Goto([s EXCEPT !.peerPool[k.addr][k.topic].recvsymkey = k.id], k, "222")
         [] k.pc = "222" ->
               Goto([s EXCEPT !.peerPool[k.addr][k.topic].symkeyexpires =
                                  s.now + SymKeyValidity], k, "224")
         [] k.pc = "224" ->
               Goto(IF k.id \in DOMAIN s.reverseKeyPool /\ DOMAIN s.reverseKeyPool[k.id] # {}
                    THEN s
                    ELSE [s EXCEPT !.reverseKeyPool = MapPut(@, k.id, EmptyMap)], k, "226")
         [] k.pc = "226" ->
               Return([s EXCEPT !.reverseKeyPool[k.id] = MapPut(@, k.topic, k.addr)],
                      [k EXCEPT !.in = FALSE], Nil)
         [] k.pc = "242" ->
               IF gone THEN Dies(s, k, Panic)
               ELSE Goto([s EXCEPT !.peerPool[k.addr][k.topic].sendsymkey = k.id],
                         [k EXCEPT !.in = TRUE], "243")
         [] OTHER ->
               Return([s EXCEPT !.peerPool[k.addr][k.topic].symkeyexpires =
                                    s.now + SymKeyValidity],
                      [k EXCEPT !.in = FALSE], Nil)

\* AddPeer: takes the mutex (584) and calls preparePeerTopic (586), which
\* takes it again; 587-588 file rw.  The goroutine of 589-593, which runs
\* the session and calls removePeerTopic when it ends, is started after
\* that: the call of 586 never returns, so the goroutine never exists
AddPeer(s, k) ==
    IF k.pc = "584"
    THEN Goto(s, [k EXCEPT !.in = TRUE, !.stack = <<"586">> \o @], "601")
    ELSE IF ~HasPeer(s, k.addr, k.topic) THEN Dies(s, k, Panic)
    ELSE Return([s EXCEPT !.peerPool[k.addr][k.topic].rw = k.rw],
                [k EXCEPT !.in = FALSE], Nil)

\* isActive(id, topic): 626, 629
isActive(s, k) ==
    IF k.pc = "626"
    THEN IF k.addr \notin DOMAIN s.peerPool THEN Return(s, k, "false")
         ELSE Goto(s, k, "629")
    ELSE IF ~HasPeer(s, k.addr, k.topic) THEN Dies(s, k, Panic)
    ELSE Return(s, k, IF s.peerPool[k.addr][k.topic].rw # NoRW THEN "true" ELSE "false")

\* line 637: the keys of psp have expired
expired(psp, now) == Before(psp.symkeyexpires, now)

\* line 640: one of the two keys of psp is missing
keyMissing(psp) == psp.recvsymkey = EmptyId \/ psp.sendsymkey = EmptyId

\* isSecured(id, topic): the three tests, each reading peerPool again; the
\* second and third dereference peerPool[id][topic] without a nil check
isSecured(s, k) ==
    IF k.pc = "634"
    THEN IF k.addr \notin DOMAIN s.peerPool THEN Return(s, k, "false")
         ELSE Goto(s, k, "637")
    ELSE IF ~HasPeer(s, k.addr, k.topic) THEN Dies(s, k, Panic)
    ELSE IF k.pc = "637"
    THEN IF expired(s.peerPool[k.addr][k.topic], s.now)
         THEN Return(s, k, "false")
         ELSE Goto(s, k, "640")
    ELSE IF keyMissing(s.peerPool[k.addr][k.topic]) THEN Return(s, k, "false")
         ELSE Return(s, k, "true")

\* ------------------------------------------------------------------ handlers
getHandlers(s, topic) ==
    IF topic \in DOMAIN s.handlers THEN s.handlers[topic] ELSE {}

\* Register: the handler is filed under the address of the parameter
\* variable, a fresh pointer at every call; the function returned
\* deregisters that pointer. The inner map of a topic is made by the call
\* that finds none (omap: the map a handler was filed in, named after that
\* call)
Register(s, topic, handler) ==
    LET h == Len(s.closures) + 1
        hs == getHandlers(s, topic)
        m == IF hs = {} THEN h ELSE s.closures[CHOOSE x \in hs : TRUE].omap
    IN [s EXCEPT !.handlers = MapPut(s.handlers, topic, hs \cup {h}),
                 !.closures = Append(s.closures, [topic |-> topic, omap |-> m, fn |-> handler,
                                                  kept |-> FALSE])]

\* deregister: with one handler left the topic's entry is deleted from
\* Pss.handlers; the inner map is not emptied, so the handler stays in it
\* (kept) for whoever still holds the map
deregister(s, topic, h) ==
    LET hs == getHandlers(s, topic)
    IN IF Cardinality(hs) = 1
       THEN [s EXCEPT !.handlers = MapDel(s.handlers, topic),
                      !.closures[CHOOSE x \in hs : TRUE].kept = TRUE]
       ELSE IF topic \in DOMAIN s.handlers
       THEN [s EXCEPT !.handlers = MapPut(s.handlers, topic, hs \ {h})]
       ELSE s

\* what a range over the inner map m yields: the map is the one Pss.handlers
\* holds for a topic, or one that was dropped from it
handlersIn(s, m) ==
    LET live == {tp \in DOMAIN s.handlers :
                    \E x \in s.handlers[tp] : s.closures[x].omap = m}
    IN IF live # {} THEN s.handlers[CHOOSE tp \in live : TRUE]
       ELSE {x \in 1..Len(s.closures) : s.closures[x].omap = m /\ s.closures[x].kept}

\* the inner map Pss.handlers holds for topic, 0 for none
MapOf(s, topic) ==
    IF getHandlers(s, topic) = {} THEN 0
    ELSE s.closures[CHOOSE x \in getHandlers(s, topic) : TRUE].omap

\* ------------------------------------------------------- the devp2p bridge
\* the PssReadWriter for (To, topic) and its channel: whether a ReadMsg
\* waits on it, the injectMsg calls that wait on it with their messages, in
\* the order they arrived, and the messages ReadMsg has returned
PssReadWriter(to, topic) == [To |-> to, topic |-> topic]
NewChan == [reading |-> FALSE, offered |-> << >>, got |-> << >>]
ChanOf(s, rw) == IF rw \in DOMAIN s.vrw THEN s.vrw[rw] ELSE NewChan
\* the send of line 686 has not been received yet
Offering(s, rw, t) == \E i \in 1..Len(ChanOf(s, rw).offered) : ChanOf(s, rw).offered[i].t = t

\* injectMsg: the send on the unbuffered channel (686) waits until a
\* ReadMsg receives the message; then injectMsg returns nil (687)
injectMsg(s, k, t) ==
    IF k.pc = "686"
    THEN Goto([s EXCEPT !.vrw = MapPut(s.vrw, k.rw,
                           [ChanOf(s, k.rw) EXCEPT
                               !.offered = Append(@, [t |-> t, msg |-> k.pmsg])])],
              k, "687")
    ELSE Return(s, k, Nil)

\* PssReadWriter.ReadMsg: the caller waits on the channel
ReadMsg(s, rw) ==
    [s EXCEPT !.vrw = MapPut(s.vrw, rw, [ChanOf(s, rw) EXCEPT !.reading = TRUE])]
\* the receive of ReadMsg meets the message of one of the injectMsg calls
\* that wait in the send of line 686 (the i-th to arrive: which of several
\* waiting senders a receive serves is the runtime's choice): ReadMsg
\* returns it
receive(s, rw, i) ==
    LET c == ChanOf(s, rw)
    IN [s EXCEPT !.vrw = MapPut(s.vrw, rw,
                                [reading |-> FALSE,
                                 offered |-> SubSeq(c.offered, 1, i - 1)
                                             \o SubSeq(c.offered, i + 1, Len(c.offered)),
                                 got |-> Append(c.got, c.offered[i].msg)])]

\* PssProtocol.Handle(msg, p, senderAddr) of the protocol for k.topic: 736,
\* the lookup of the PssReadWriter; isActive, AddPeer and injectMsg are
\* calls of their own
Handle(s, k) ==
    IF ~HasPeer(s, k.addr, k.topic) \/ s.peerPool[k.addr][k.topic].rw = NoRW
    THEN Dies(s, k, Panic)
    ELSE Goto(s, [k EXCEPT !.rw = s.peerPool[k.addr][k.topic].rw,
                           !.stack = <<"737">> \o @], "686")

\* ------------------------------------------------------ Process and Forward
\* the index of the first inbound symkey that opens env, 0 if none does
RECURSIVE trySymKeys(_, _, _)
trySymKeys(s, env, i) ==
    IF i > Len(s.recvsymkeys) THEN 0
    ELSE LET k == GetSymKey(s, s.recvsymkeys[i])
         IN IF k.err = Nil /\ OpenSymmetric(env, k.key) THEN i
            ELSE trySymKeys(s, env, i + 1)

\* reverseKeyPool[symkeyid][topic]: a missing entry reads as the zero Address
reverseLookup(s, symkeyid, topic) ==
    IF symkeyid \in DOMAIN s.reverseKeyPool
       /\ topic \in DOMAIN s.reverseKeyPool[symkeyid]
    THEN s.reverseKeyPool[symkeyid][topic]
    ELSE ZeroAddr

\* lines 381-395 of Process: what becomes of an envelope that no inbound
\* symkey opens: nil or an error returned, or "keymsg" for a handshake
\* (a variant that drops a badly signed message without an error)
asymBranchDropUnsigned(env, pub) ==
    IF ~OpenAsymmetric(env, pub) THEN Nil
    ELSE IF ~Validate(env) THEN Nil
    ELSE IF ~AssertPssKeyMsg(env.payload).ok THEN "invalid handshake msg"
    ELSE "keymsg"

asymBranch(env, pub) ==
    IF ~OpenAsymmetric(env, pub) THEN Nil
    ELSE IF ~Validate(env) THEN "invalid signature"
    ELSE IF ~AssertPssKeyMsg(env.payload).ok THEN "invalid handshake msg"
    ELSE "keymsg"

\* the handlers a turn of the range at 435 can yield: those the map holds
\* and has not yielded; 0, the end of the range, once the map holds none of
\* those it held when the range began (a handler filed since may be left
\* out)
Yields(s, k) ==
    LET hs == handlersIn(s, k.omap)
        start == IF k.i = 0 THEN hs ELSE k.start
    IN (hs \ k.called) \cup (IF (hs \cap start) \ k.called = {} THEN {0} ELSE {})

\* Process(pssmsg), one access to memory other goroutines reach per step:
\* 365, the range expression (the slice header of recvsymkeys, read once);
\* 367, one turn of the loop, GetSymKey and OpenSymmetric; 371, the read of
\* reverseKeyPool for the key that opened the envelope; 381, the asymmetric
\* branch for an envelope no symkey opened, up to the first call; 406,
\* GenerateSymKey and GetSymKey; 427, getHandlers, under the lock; 428, the
\* len of the map it returned; 435, one turn of the range with the handler
\* it calls (x.f, a plain handler returning an error if x.err)
Process(s, k, x) ==
    LET env == k.msg.Payload
    IN CASE k.pc = "365" ->
              Goto(s, [k EXCEPT !.iter = s.recvsymkeys, !.i = 1],
                   IF s.recvsymkeys = << >> THEN "381" ELSE "367")
         [] k.pc = "367" ->
              LET g == GetSymKey(s, k.iter[k.i])
              IN IF g.err = Nil /\ OpenSymmetric(env, g.key) THEN Goto(s, k, "371")
                 ELSE IF k.i < Len(k.iter) THEN Goto(s, [k EXCEPT !.i = @ + 1], "367")
                 ELSE Goto(s, k, "381")
         [] k.pc = "371" ->
              LET from == reverseLookup(s, k.iter[k.i], env.Topic)
              IN EnterIsSecured(
                     s, [k EXCEPT !.out.opened = <<[from |-> from,
                                                    symkeyid |-> k.iter[k.i]]>>],
                     from, env.Topic, "423")
         [] k.pc = "381" ->
              LET a == asymBranch(env, PubKeyOf(s.self))
              IN IF a # "keymsg" THEN Return(s, k, a)
                 ELSE EnterKeyCall(s, k, "SetOutgoingSymmetricKey",
                                   copyToAddr(env.payload.From), env.Topic,
                                   env.payload.Key, "398")
         [] k.pc = "406" ->
              LET g == GenerateSymKey(s, k.e)
              IN IF g.err # Nil THEN Return(s, k, "could not generate outgoing symkey")
                 ELSE EnterKeyCall(g.s, k, "SetIncomingSymmetricKey", k.addr, env.Topic,
                                   GetSymKey(g.s, g.id).key, "414")
         [] k.pc = "427" ->
              Goto(s, [k EXCEPT !.omap = MapOf(s, env.Topic), !.start = {},
                                !.called = {}, !.i = 0], "428")
         [] k.pc = "428" ->
              IF handlersIn(s, k.omap) = {}
              THEN Return(s, k, "No registered handler for topic")
              ELSE Goto(s, k, "435")
         [] OTHER ->
              LET k1 == [k EXCEPT !.start = IF k.i = 0 THEN handlersIn(s, k.omap) ELSE @,
                                  !.out.held = IF k.i = 0 THEN <<handlersIn(s, k.omap)>>
                                               ELSE @,
                                  !.i = 1, !.called = @ \cup {x.f},
                                  !.out.calls = Append(@, [from |-> k.addr,
                                                           payload |-> env.payload,
                                                           err |-> x.err, handler |-> x.f])]
              IN IF x.f = 0 THEN Return(s, k, Nil)
                 ELSE IF s.closures[x.f].fn = "proto"
                 THEN Goto(s, [k1 EXCEPT !.payload = env.payload,
                                         !.stack = <<"720", "436">> \o @], "626")
                 ELSE IF x.err THEN Return(s, k1, "handler error")
                 ELSE Goto(s, k1, "435")

\* the EachConn callback of Forward from line 550 on, for the peer op:
\* whether the message counts as sent and whether the iteration goes on; hit
\* is what checkFwdCache(op.Address(), digest) returned, ok whether pp.Send
\* returned nil
callback(hit, ok, msg, op) ==
    IF hit THEN [sent |-> FALSE, more |-> TRUE]
    ELSE IF ~ok THEN [sent |-> FALSE, more |-> TRUE]
    ELSE [sent |-> TRUE, more |-> ~(bytesEqual(msg.To, op.addr) \/ ~op.isproxbin)]

\* the callback has returned more for the peer of turn k.i: EachConn calls
\* it for the next peer or returns, and Forward tests sent (569)
NextConn(s, k, more) ==
    IF more /\ k.i < Len(k.iter) THEN Goto(s, [k EXCEPT !.i = @ + 1], "549")
    ELSE IF k.sent = 0
    THEN Return(s, [k EXCEPT !.out.fwd[1].ret = NoRoute], NoRoute)
    ELSE Goto(s, k, "574")

\* Forward(msg) for a message that is not for this node, one access to
\* memory other goroutines reach per step: 525, storeMsg; 531, the flood
\* guard; 541, the call of EachConn, which lists the connections the overlay
\* holds at that moment and keeps its own lock while it calls back; then
\* for each peer listed 549, the type assertion of 542 and the read of
\* fwdPool, with no lock; 550, the per-peer check; 554, pp.Send (x.ok: the
\* transport takes the message) on the pointer read at 549, which is nil for
\* a peer that Run has not filed; after the last turn the test of sent; 574,
\* addFwdCacheExpire.  Each call of checkFwdCache and addFwdCacheExpire
\* takes Pss.lock for itself.
Forward(s, k, x) ==
    LET op == k.iter[k.i]
        F(digest) ==
            <<[To |-> k.msg.To, digest |-> digest, iter |-> << >>, ret |-> Nil,
               guard |-> FALSE, tried |-> << >>, at |-> s.now]>>
        T(ok, hit) == [k EXCEPT !.out.fwd[1].tried =
                                    Append(@, [addr |-> op.addr, ok |-> ok, hit |-> hit])]
    IN CASE k.pc = "525" ->
              LET digest == storeMsg(k.msg, k.e).digest
              IN Goto(s, [k EXCEPT !.digest = digest, !.out.fwd = F(digest)], "531")
         [] k.pc = "531" ->
              IF checkFwdCache(s, NilBytes, k.digest, s.now)
              THEN Return(s, [k EXCEPT !.out.fwd[1].guard = TRUE], Nil)
              ELSE Goto(s, [k EXCEPT !.sent = 0], "541")
         [] k.pc = "541" ->
              LET iter == EachConn(s.overlay, k.msg.To, MaxConns, k.e.depth)
              IN NextConn(s, [k EXCEPT !.iter = iter, !.i = 0, !.out.fwd[1].iter = iter],
                          iter # << >>)
         [] k.pc = "549" ->
              IF ~op.sender THEN Dies(s, k, Exit)
              ELSE Goto(s, [k EXCEPT !.psp = op.addr \in s.fwdPool], "550")
         [] k.pc = "550" ->
              IF checkFwdCache(s, op.addr, k.digest, s.now)
              THEN NextConn(s, T(FALSE, TRUE), callback(TRUE, FALSE, k.msg, op).more)
              ELSE Goto(s, k, "554")
         [] k.pc = "554" ->
              LET c == callback(FALSE, x.ok, k.msg, op)
                  k1 == [T(x.ok, FALSE) EXCEPT
                            !.sent = @ + (IF c.sent THEN 1 ELSE 0),
                            !.out.sends = IF c.sent
                                          THEN Append(@, [to |-> op.addr, msg |-> k.msg])
                                          ELSE @]
              IN IF ~k.psp THEN Dies(s, k, Panic)
                 ELSE NextConn(IF c.sent
                               THEN [s EXCEPT !.emit = <<[to |-> op.addr, msg |-> k.msg]>>]
                               ELSE s,
                               k1, c.more)
         [] OTHER ->
              Return([addFwdCacheExpire(s, k.digest, s.now) EXCEPT
                         !.fwdDone = MapPut(@, k.digest, [msg |-> k.msg, at |-> s.now])],
                     k, Nil)

\* ------------------------------------------------------------------ sending
\* send(to, topic, msg, wparams): the envelope is wrapped and forwarded
send(s, k, wparams) ==
    LET w == Wrap(wparams)
    IN IF w.err # Nil THEN Return(s, k, "whisper backend")
       ELSE EnterForward(s, k, PssMsg(k.to, w.env))

\* SendSym after isSecured answered true: 454, psp is read; 455, its
\* sendsymkey is read and looked up
SendSym(s, k) ==
    IF k.pc = "454"
    THEN Goto(s, [k EXCEPT !.psp = HasPeer(s, k.addr, k.topic)], "455")
    ELSE IF ~k.psp \/ ~HasPeer(s, k.addr, k.topic) THEN Dies(s, k, Panic)
    ELSE LET g == GetSymKey(s, s.peerPool[k.addr][k.topic].sendsymkey)
         IN IF g.err # Nil THEN Return(s, k, "missing valid symkey")
            ELSE send(s, k, [Topic |-> k.topic, Src |-> Unsigned, Dst |-> "none",
                             Payload |-> k.payload, KeySym |-> g.key])

\* SendAsym: 478, psp is read; 479, its pubkey is copied (x.race: the copy
\* meets the write of line 205)
SendAsym(s, k, x) ==
    IF k.pc = "478"
    THEN Goto(s, [k EXCEPT !.addr = copyToAddr(k.to),
                           !.psp = HasPeer(s, copyToAddr(k.to), k.topic)], "479")
    ELSE IF ~k.psp \/ ~HasPeer(s, k.addr, k.topic) \/ x.race = "torn: panic"
    THEN Dies(s, k, Panic)
    ELSE IF x.race = "torn: invalid" THEN Return(s, k, "whisper backend")
    ELSE send(s, k, [Topic |-> k.topic, Src |-> PubKeyOf(s.self),
                     Dst |-> IF x.race = "torn: sealed" THEN TornPubKey
                             ELSE s.peerPool[k.addr][k.topic].pubkey,
                     Payload |-> k.payload, KeySym |-> ""])

\* PssReadWriter.WriteMsg: Size bytes are read from the payload into a
\* buffer of Size bytes and framed with Code and Size: the msg that
\* SendAsym is called with at 680
WriteMsg(msg) ==
    ProtoPayload(msg.Code, msg.Size,
                 [i \in 1..msg.Size |-> IF i <= Len(msg.Payload) THEN msg.Payload[i] ELSE 0])

\* Pss.Run(p, rw), line 162: p is filed in fwdPool; the read loop starts
Run(s, k) == Return([s EXCEPT !.fwdPool = @ \cup {k.addr}], k, Nil)

\* AddToCache(addr, msg): storeMsg, then addFwdCacheSender under the lock
AddToCache(s, k) ==
    LET st == storeMsg(k.msg, k.e)
    IN IF st.err # Nil THEN Return(s, k, st.err)
       ELSE IF s.locked THEN Blocks(s, k)
       ELSE Return(addFwdCacheSender(s, k.addr, st.digest), k, Nil)

\* ------------------------------------------------- statements and the lock
\* the next statement of the goroutine begins with Pss.lock.Lock()
Locks(k) ==
    ~k.in /\ k.pc \in {"194", "205", "219", "242", "281", "320", "427", "531", "550",
                       "574", "584", "601"}

\* the next statement of the goroutine is a Lock() that never returns: the
\* mutex is held for ever, or held by the goroutine itself (AddPeer, 584,
\* calling preparePeerTopic, 598)
Parked(s, k) == (Locks(k) /\ s.locked) \/ (k.pc = "601" /\ k.in)

\* the goroutine in slot t can execute its next statement: the mutex it
\* asks for is not held by a goroutine that will release it, and a send on
\* a channel has been received
Ready(s, t) ==
    LET k == s.tasks[t]
    IN /\ k.op # "idle"
       /\ k.pc = "687" => ~Offering(s, k.rw, t)
       /\ (Locks(k) \/ (k.pc = "286" /\ k.e.storeOK)) /\ ~s.locked
             => \A u \in Tasks \ {t} : ~s.tasks[u].in

\* a place in the memory of a node that one statement reads or writes: a
\* map, a slice header, or a field of the pssPeer of (a, t)
Loc(m, a, t, i) == [a |-> a, i |-> i, t |-> t, m |-> m]
Field(f, a, t) == Loc(f, a, t, 0)
Inner(a) == Loc("peerPool[id]", a, "", 0)
Outer == Loc("peerPool", NilBytes, "", 0)
Maps == {"peerPool", "peerPool[id]", "reverseKeyPool", "reverseKeyPool[id]",
         "recvsymkeys", "fwdPool", "handlers[topic]"}
\* the places the next statement of k reads and writes among those that
\* some statement reaches without the mutex, and whether this one holds it
Section(locked, reads, writes) == [locked |-> locked, reads |-> reads, writes |-> writes]
Touch(s, k) ==
    LET a == k.addr
        tp == k.topic
        hs == getHandlers(s, tp)
        pair == {Outer, Inner(a)}
    IN CASE k.pc \in {"634", "626"} -> Section(FALSE, {Outer}, {})
         [] k.pc = "637" -> Section(FALSE, pair \cup {Field("symkeyexpires", a, tp)}, {})
         [] k.pc = "640" -> Section(FALSE, pair \cup {Field("recvsymkey", a, tp),
                                                      Field("sendsymkey", a, tp)}, {})
         [] k.pc \in {"629", "736"} -> Section(FALSE, pair \cup {Field("rw", a, tp)}, {})
         [] k.pc = "454" -> Section(FALSE, pair, {})
         [] k.pc = "478" -> Section(FALSE, {Outer, Inner(copyToAddr(k.to))}, {})
         [] k.pc = "455" -> Section(FALSE, {Field("sendsymkey", a, tp)}, {})
         [] k.pc = "479" -> Section(FALSE, {Field("pubkey", a, tp)}, {})
         [] k.pc = "365" -> Section(FALSE, {Loc("recvsymkeys", NilBytes, "", 0)}, {})
         [] k.pc = "371" ->
               Section(FALSE,
                       {Loc("reverseKeyPool", NilBytes, "", 0)}
                       \cup (IF k.iter[k.i] \in DOMAIN s.reverseKeyPool
                             THEN {Loc("reverseKeyPool[id]", NilBytes, "", k.iter[k.i])}
                             ELSE {}),
                       {})
         \* getHandlers: the handler map is reached under the mutex only
         [] k.pc = "427" -> Section(TRUE, {}, {})
         [] k.pc \in {"428", "435"} ->
               Section(FALSE,
                       IF k.omap = 0 THEN {}
                       ELSE {Loc("handlers[topic]", NilBytes, "", k.omap)}, {})
         [] k.pc = "549" ->
               Section(FALSE,
                       IF k.iter[k.i].sender THEN {Loc("fwdPool", NilBytes, "", 0)} ELSE {},
                       {})
         [] k.pc = "162" -> Section(FALSE, {}, {Loc("fwdPool", NilBytes, "", 0)})
         [] k.pc \in {"367", "381", "525", "541", "554"} -> Section(FALSE, {}, {})
         [] k.pc = "601" -> Section(TRUE, {Outer},
                                    IF a \in DOMAIN s.peerPool THEN {} ELSE {Outer})
         [] k.pc = "606" -> Section(TRUE, pair,
                                    IF HasPeer(s, a, tp) THEN {} ELSE {Inner(a)})
         [] k.pc = "205" -> Section(TRUE, pair, {Field("pubkey", a, tp)})
         [] k.pc = "219" -> Section(TRUE, {}, {Loc("recvsymkeys", NilBytes, "", 0)})
         [] k.pc = "221" -> Section(TRUE, pair, {Field("recvsymkey", a, tp)})
         [] k.pc \in {"222", "243"} -> Section(TRUE, {}, {Field("symkeyexpires", a, tp)})
         [] k.pc = "224" ->
               Section(TRUE, {Loc("reverseKeyPool", NilBytes, "", 0)},
                       IF k.id \in DOMAIN s.reverseKeyPool
                          /\ DOMAIN s.reverseKeyPool[k.id] # {}
                       THEN {} ELSE {Loc("reverseKeyPool", NilBytes, "", 0)})
         [] k.pc = "226" -> Section(TRUE, {Loc("reverseKeyPool", NilBytes, "", 0)},
                                    {Loc("reverseKeyPool[id]", NilBytes, "", k.id)})
         [] k.pc = "242" -> Section(TRUE, pair, {Field("sendsymkey", a, tp)})
         [] k.pc = "587" -> Section(TRUE, pair, {Field("rw", a, tp)})
         [] k.pc = "194" ->
               Section(TRUE, {},
                       IF hs = {} THEN {}
                       ELSE {Loc("handlers[topic]", NilBytes, "", MapOf(s, tp))})
         [] k.pc = "281" ->
               Section(TRUE, {},
                       IF Cardinality(hs) <= 1 THEN {}
                       ELSE {Loc("handlers[topic]", NilBytes, "", MapOf(s, tp))})
         [] OTHER -> Section(TRUE, {}, {})

\* the places where the next statement of the goroutine in slot t meets the
\* next statement of another goroutine that could run now, one of the two
\* writing and not both holding the mutex; a goroutine parked in Lock()
\* executes no access
Races(s, t) ==
    LET a == Touch(s, s.tasks[t])
    IN IF Parked(s, s.tasks[t]) THEN {}
       ELSE {l \in a.reads \cup a.writes :
               \E u \in Tasks \ {t} :
                  LET b == Touch(s, s.tasks[u])
                  IN /\ Ready(s, u) /\ ~Parked(s, s.tasks[u])
                     /\ ~(a.locked /\ b.locked)
                     /\ l \in b.writes \/ (l \in a.writes /\ l \in b.reads)}

\* what the next statement of the goroutine in slot t may meet: a send
\* that the transport takes or refuses (ok), the handler the range yields
\* (f) and whether it returns an error (err), and for an access that races,
\* a map or slice access that ends the process ("abort") or a torn copy of
\* the public key
NoInput == [f |-> 0, err |-> FALSE, ok |-> TRUE, race |-> ""]
Inputs(s, t) ==
    LET k == s.tasks[t]
        rc == Races(s, t)
    IN (CASE k.pc = "554" ->
                IF ~k.psp THEN {NoInput}
                ELSE {[NoInput EXCEPT !.ok = b] :
                         b \in IF k.e.up = "any" THEN BOOLEAN ELSE {k.e.up = "up"}}
          [] k.pc = "435" ->
                {[NoInput EXCEPT !.f = f, !.err = b] :
                    f \in Yields(s, k),
                    b \in {FALSE}} \cup
                {[NoInput EXCEPT !.f = f, !.err = TRUE] :
                    f \in {g \in Yields(s, k) \ {0} : s.closures[g].fn # "proto"}}
          [] OTHER -> {NoInput})
       \cup (IF \E l \in rc : l.m \in Maps
             THEN {[NoInput EXCEPT !.race = "abort"]} ELSE {})
       \cup (IF k.pc = "479" /\ rc # {}
             THEN {[NoInput EXCEPT !.race = r] :
                      r \in {"torn: invalid", "torn: sealed", "torn: panic"}}
             ELSE {})

\* the next statement of the goroutine in slot t
Stmt(s, t, x) ==
    LET k == s.tasks[t]
    IN IF Parked(s, k) THEN Blocks(s, k)
       ELSE IF x.race = "abort" THEN Dies(s, k, Fatal)
       ELSE CASE k.pc \in {"634", "637", "640"} -> isSecured(s, k)
              [] k.pc \in {"626", "629"} -> isActive(s, k)
              [] k.pc \in {"601", "606"} -> preparePeerTopic(s, k)
              [] k.pc \in {"584", "587"} -> AddPeer(s, k)
              [] k.pc \in {"365", "367", "371", "381", "406", "427", "428", "435"} ->
                    Process(s, k, x)
              [] k.pc \in {"525", "531", "541", "549", "550", "554", "574"} ->
                    Forward(s, k, x)
              [] k.pc = "344" -> EnterForward(s, k, k.msg)
              [] k.pc \in {"454", "455"} -> SendSym(s, k)
              [] k.pc \in {"478", "479"} -> SendAsym(s, k, x)
              [] k.pc = "736" -> Handle(s, k)
              [] k.pc \in {"686", "687"} -> injectMsg(s, k, t)
              [] k.pc = "162" -> Run(s, k)
              [] k.pc = "194" -> Return(Register(s, k.topic, k.key), k, Nil)
              [] k.pc = "281" -> Return(deregister(s, k.topic, k.id), k, Nil)
              [] k.pc = "286" -> AddToCache(s, k)
              [] k.pc = "320" ->
                    Return(s, k, IF checkFwdCache(s, k.addr, k.digest, s.now)
                                 THEN "true" ELSE "false")
              [] OTHER -> KeyCallStep(s, k)

\* ===================================================================== state
VARIABLES
    peerPool,        \* Pss.peerPool, per node
    reverseKeyPool,  \* Pss.reverseKeyPool
    recvsymkeys,     \* Pss.recvsymkeys
    fwdcache,        \* Pss.fwdcache
    handlers,        \* Pss.handlers
    fwdPool,         \* Pss.fwdPool: the peers Run has filed
    overlay,         \* Pss.Overlay: the connections the overlay holds, each
                     \* with whether its type implements senderPeer
    symKeys,         \* the symkey table of the node's whisper backend
    now,             \* time.Now()
    net,             \* wrapped messages in flight between the modelled nodes
    crashed,         \* nodes whose process died of a run-time panic or of a
                     \* fatal error of the runtime
    wedged,          \* per node, the goroutines that wait for ever for
                     \* Pss.lock: read loops by their neighbour, any other
                     \* caller by the empty address; the first of them holds
                     \* the mutex
    closures,        \* the handlers passed to Register, in call order: the
                     \* index of one is its *Handler and its deregister function
    vrw,             \* the PssReadWriters: per channel, whether a ReadMsg is
                     \* blocked on it, the senders blocked on it, and the
                     \* messages ReadMsg has returned
    stopped,         \* nodes on which Stop has been called
    tasks,           \* per node, the goroutines that are inside a call, each
                     \* with the statement it executes next
    last,            \* the last step: the statement executed (pc) by which
                     \* goroutine (t) in which call (of, arg) and, when it
                     \* ended the call (op = of), the outcome of the call
    fwdDone          \* history: digest -> the time the last fan-out with a
                     \* successful send completed, and its message

vars == <<peerPool, reverseKeyPool, recvsymkeys, fwdcache, handlers, fwdPool, overlay,
          symKeys, now, net, crashed, wedged, closures, vrw, stopped, tasks, last, fwdDone>>

St(n) == [symKeys |-> symKeys[n], fwdcache |-> fwdcache[n], now |-> now, self |-> n,
          peerPool |-> peerPool[n], recvsymkeys |-> recvsymkeys[n],
          reverseKeyPool |-> reverseKeyPool[n], handlers |-> handlers[n],
          closures |-> closures[n], vrw |-> vrw[n], overlay |-> overlay[n],
          fwdPool |-> fwdPool[n], emit |-> << >>, fwdDone |-> fwdDone[n],
          locked |-> wedged[n] # {}, tasks |-> tasks[n], stopped |-> stopped[n]]

\* NewPss: empty maps, and an overlay that holds no connection yet
NewPss ==
    /\ fwdPool = [n \in Nodes |-> {}]
    /\ overlay = [n \in Nodes |-> EmptyMap]
    /\ peerPool = [n \in Nodes |-> EmptyMap]
    /\ reverseKeyPool = [n \in Nodes |-> EmptyMap]
    /\ recvsymkeys = [n \in Nodes |-> << >>]
    /\ fwdcache = [n \in Nodes |-> EmptyMap]
    /\ handlers = [n \in Nodes |-> EmptyMap]
    /\ symKeys = [n \in Nodes |-> EmptyMap]

NoCall == [x |-> NoInput, t |-> 0, e |-> NoEnv, sends |-> << >>, calls |-> << >>,
           held |-> << >>, fwd |-> << >>, opened |-> << >>, op |-> "none", arg |-> << >>,
           pc |-> "", pre |-> << >>, ret |-> Nil, node |-> NilBytes, of |-> "none"]

Init ==
    /\ NewPss
    /\ now = 1
    /\ net = {}
    /\ crashed = [n \in Nodes |-> FALSE]
    /\ wedged = [n \in Nodes |-> {}]
    /\ closures = [n \in Nodes |-> << >>]
    /\ vrw = [n \in Nodes |-> EmptyMap]
    /\ stopped = [n \in Nodes |-> FALSE]
    /\ tasks = [n \in Nodes |-> [t \in Tasks |-> IdleTask]]
    /\ last = NoCall
    /\ fwdDone = [n \in Nodes |-> EmptyMap]

\* the depths the overlay may report to EachConn: at 5 both senders of NodeA
\* lie in the proximity bin of RecipR, at 7 PeerD alone, at 8 neither
Depths == {5, 7, 8}

\* the slot a goroutine that enters a call takes
Free(n) == {t \in Tasks : tasks[n][t].op = "idle"}
Slot(n) == CHOOSE t \in Free(n) : \A u \in Free(n) : t <= u
\* the read loop of neighbour from is inside a call of handlePssMsg
Busy(n, from) == \E t \in Tasks : tasks[n][t].op # "idle" /\ tasks[n][t].g = from

\* the statement of goroutine k in slot t of node n has been executed with
\* the inputs x and has left r (taken: the messages the call took from the
\* wire)
Commit(n, t, k, x, r, taken) ==
    /\ Cardinality(DOMAIN r.s.symKeys) <= MaxKeys
    /\ peerPool' = [peerPool EXCEPT ![n] = r.s.peerPool]
    /\ reverseKeyPool' = [reverseKeyPool EXCEPT ![n] = r.s.reverseKeyPool]
    /\ recvsymkeys' = [recvsymkeys EXCEPT ![n] = r.s.recvsymkeys]
    /\ fwdcache' = [fwdcache EXCEPT ![n] = r.s.fwdcache]
    /\ handlers' = [handlers EXCEPT ![n] = r.s.handlers]
    /\ fwdPool' = [fwdPool EXCEPT ![n] = r.s.fwdPool]
    /\ symKeys' = [symKeys EXCEPT ![n] = r.s.symKeys]
    /\ closures' = [closures EXCEPT ![n] = r.s.closures]
    /\ vrw' = [vrw EXCEPT ![n] = r.s.vrw]
    /\ stopped' = [stopped EXCEPT ![n] = r.s.stopped]
    /\ fwdDone' = [fwdDone EXCEPT ![n] = r.s.fwdDone]
    /\ crashed' = [crashed EXCEPT ![n] = (r.st = "crash")]
    /\ wedged' = IF r.st = "dead" THEN [wedged EXCEPT ![n] = @ \cup {k.g}] ELSE wedged
    /\ tasks' = [tasks EXCEPT ![n] =
                    IF r.st = "crash" THEN [u \in Tasks |-> IdleTask]
                    ELSE [r.s.tasks EXCEPT ![t] = IF r.st # "run" THEN IdleTask ELSE r.k]]
    /\ last' = IF r.st # "run"
               THEN [x |-> x, t |-> t, e |-> k.e, sends |-> r.k.out.sends,
                     calls |-> r.k.out.calls, held |-> r.k.out.held, fwd |-> r.k.out.fwd,
                     opened |-> r.k.out.opened, op |-> k.op, arg |-> k.arg, pc |-> k.pc,
                     pre |-> k.pre, ret |-> r.ret, node |-> n, of |-> k.op]
               ELSE [NoCall EXCEPT !.op = "statement", !.node = n, !.t = t, !.pc = k.pc,
                                   !.of = k.op, !.arg = k.arg]
    /\ net' = IF k.e.wired
              THEN (net \ taken)
                   \cup {[from |-> n, to |-> r.s.emit[i].to, msg |-> r.s.emit[i].msg] :
                            i \in {j \in 1..Len(r.s.emit) : r.s.emit[j].to \in Nodes}}
              ELSE net
    /\ UNCHANGED <<now, overlay>>

\* the goroutine in slot t of node n, part of the node state s, executes its
\* next statement
Exec(n, t, s, taken) ==
    /\ ~crashed[n] /\ Ready(s, t)
    /\ \E x \in Inputs(s, t) : Commit(n, t, s.tasks[t], x, Stmt(s, t, x), taken)

\* a goroutine of node n enters the call k and executes its first statement
Call(n, k, taken) ==
    /\ Free(n) # {}
    /\ Exec(n, Slot(n), [St(n) EXCEPT !.tasks[Slot(n)] = k], taken)

\* a goroutine of node n enters the call k; its first statement is still
\* to come
Enter(n, k) ==
    /\ Free(n) # {} /\ ~crashed[n]
    /\ tasks' = [tasks EXCEPT ![n][Slot(n)] = k]
    /\ last' = [NoCall EXCEPT !.op = "call", !.node = n, !.t = Slot(n), !.of = k.op,
                              !.arg = k.arg]
    /\ UNCHANGED <<peerPool, reverseKeyPool, recvsymkeys, fwdcache, handlers, fwdPool,
                   overlay, symKeys, now, net, crashed, wedged, closures, vrw, stopped,
                   fwdDone>>

\* a goroutine of node n that is inside a call executes its next statement
Continue(n) ==
    \E t \in Tasks : tasks[n][t].op # "idle" /\ Exec(n, t, St(n), {})

\* the call op(arg) of goroutine g, about to execute the statement pc
Frame(op, g, arg, e, pc) ==
    [IdleTask EXCEPT !.op = op, !.g = g, !.arg = arg, !.e = e, !.pc = pc]

\* ------------------------------------------------------------------ inputs
OpaqueEnv == [key |-> "kz", Topic |-> "T1", enc |-> "sym", Src |-> Unsigned,
              payload |-> DataPayload("m")]
\* a wrapped message for a node that is not connected
RelayMsgs == {PssMsg(RecipR, OpaqueEnv)}
Digests == {dpaStore(m) : m \in RelayMsgs}
\* wrapped messages for somebody else
CacheMsgs == {PssMsg(RecipR, OpaqueEnv), PssMsg(PeerC, OpaqueEnv)}
\* the neighbours named as the sender of a message: the one closest to
\* RecipR (for node A) and the other modelled node
Senders(n) == IF n = NodeA THEN {PeerD, NodeB} ELSE {NodeA}
CacheSenders(n) == {NilBytes, CHOOSE p \in Senders(n) : p # NodeB}
KeyAddrs == {NodeB}
\* keys are installed under one topic; sends and messages use both
KeyTopics == {"T1"}
SymEnv(topic, key) == [key |-> key, Topic |-> topic, enc |-> "sym", Src |-> Unsigned,
                       payload |-> DataPayload("m")]
\* wrapped messages for node n
SelfMsgs(n) == {PssMsg(n, SymEnv(t, k)) : t \in Topics, k \in RawKeys}

\* --------------------------------------------------------------- actions
Tick ==
    /\ now < MaxTime
    /\ now' = now + 1
    /\ last' = [NoCall EXCEPT !.op = "Tick"]
    /\ UNCHANGED <<peerPool, reverseKeyPool, recvsymkeys, fwdcache, handlers,
                   fwdPool, overlay, symKeys, net, crashed, wedged, closures, vrw, stopped,
                   tasks, fwdDone>>

\* the overlay of node n registers the connection to p; sender: its type
\* implements senderPeer (542)
On(n, p, sender) ==
    /\ ~crashed[n]
    /\ p \in Neighbours(n) \ DOMAIN overlay[n]
    /\ overlay' = [overlay EXCEPT ![n] = MapPut(@, p, sender)]
    /\ last' = [NoCall EXCEPT !.op = "On", !.node = n]
    /\ UNCHANGED <<peerPool, reverseKeyPool, recvsymkeys, fwdcache, handlers,
                   fwdPool, symKeys, now, net, crashed, wedged, closures, vrw, stopped,
                   tasks, fwdDone>>

\* Run is called for the connection to p: the goroutine is at line 162
CallRun(n, p) ==
    /\ p \in Neighbours(n) \ fwdPool[n]
    /\ \A t \in Tasks : ~(tasks[n][t].op = "Run" /\ tasks[n][t].addr = p)
    /\ Enter(n, [Frame("Run", p, [p |-> p], NoEnv, "162") EXCEPT !.addr = p])

CallAddToCache(n, addr, msg, storeOK) ==
    Call(n, [Frame("AddToCache", NilBytes, [addr |-> addr, msg |-> msg],
                   Env(0, "up", storeOK, "ka", FALSE), "286")
                EXCEPT !.addr = addr, !.msg = msg], {})

CallCheckFwdCache(n, addr, digest) ==
    Call(n, [Frame("checkFwdCache", NilBytes, [addr |-> addr, digest |-> digest],
                   NoEnv, "320")
                EXCEPT !.addr = addr, !.digest = digest], {})

\* what a call of handlePssMsg finds when it begins: the time, and the
\* fan-outs that have completed
Began(n) == [at |-> now, done |-> fwdDone[n]]

\* the read loop of neighbour from hands msg to handlePssMsg: the test of
\* line 344
CallHandlePssMsg(n, from, msg, depth, up, storeOK, genkey, wired) ==
    /\ from \in fwdPool[n] \ wedged[n] /\ ~Busy(n, from)
    /\ Call(n, [Frame("handlePssMsg", from, [from |-> from, msg |-> msg],
                       Env(depth, up, storeOK, genkey, wired), "344")
                    EXCEPT !.msg = msg, !.pre = Began(n)],
            IF wired THEN {[from |-> from, to |-> n, msg |-> msg]} ELSE {})

\* AddPublicKey is entered: its first statement is the Lock of
\* preparePeerTopic (598)
CallAddPublicKey(n, addr, topic, pubkey) ==
    Enter(n, EnterKeyCall(St(n),
                          Frame("AddPublicKey", NilBytes,
                                [addr |-> addr, topic |-> topic, pubkey |-> pubkey],
                                NoEnv, ""),
                          "AddPublicKey", addr, topic, pubkey, "").k)

\* 212 and 234: w.AddSymKeyDirect(key)
CallSetIncomingSymmetricKey(n, addr, topic, key) ==
    Call(n, EnterKeyCall(St(n),
                         Frame("SetIncomingSymmetricKey", NilBytes,
                               [addr |-> addr, key |-> key, topic |-> topic], NoEnv, ""),
                         "SetIncomingSymmetricKey", addr, topic, key, "").k, {})

CallSetOutgoingSymmetricKey(n, addr, topic, key) ==
    Call(n, EnterKeyCall(St(n),
                         Frame("SetOutgoingSymmetricKey", NilBytes,
                               [addr |-> addr, key |-> key, topic |-> topic], NoEnv, ""),
                         "SetOutgoingSymmetricKey", addr, topic, key, "").k, {})

CallIsSecured(n, id, topic) ==
    Call(n, EnterIsSecured(St(n),
                           Frame("isSecured", NilBytes, [addr |-> id, topic |-> topic],
                                 NoEnv, ""),
                           id, topic, "").k, {})

\* the pair (a, t) of node n is secured: a PeerTopicState exists with both
\* symkey ids set and an expiry that has not passed
Secured(n, a, t) ==
    /\ a \in DOMAIN peerPool[n] /\ t \in DOMAIN peerPool[n][a]
    /\ peerPool[n][a][t].recvsymkey # EmptyId
    /\ peerPool[n][a][t].sendsymkey # EmptyId
    /\ peerPool[n][a][t].symkeyexpires >= now
\* what a send to (to, topic) finds when it begins
Found(n, to, topic) == [at |-> now, secured |-> Secured(n, copyToAddr(to), topic)]

CallSendSym(n, to, topic, msg, depth, up, storeOK, wired) ==
    Call(n, EnterSendSym(St(n),
                         [Frame("SendSym", NilBytes,
                                [to |-> to, msg |-> msg, topic |-> topic],
                                Env(depth, up, storeOK, "ka", wired), "")
                             EXCEPT !.pre = Found(n, to, topic)],
                         to, topic, msg, "").k, {})

CallSendAsym(n, to, topic, msg, depth, up, storeOK, wired) ==
    Call(n, [Frame("SendAsym", NilBytes, [to |-> to, msg |-> msg, topic |-> topic],
                   Env(depth, up, storeOK, "ka", wired), "478")
                EXCEPT !.to = to, !.topic = topic, !.payload = msg,
                       !.pre = Found(n, to, topic)], {})

\* PssReadWriter.WriteMsg(msg) on rw: 680, SendAsym(rw.To, rw.topic, pmsg)
CallWriteMsg(n, rw, msg, up) ==
    Call(n, [Frame("WriteMsg", NilBytes, [msg |-> msg, rw |-> rw],
                   Env(5, up, TRUE, "ka", TRUE), "478")
                EXCEPT !.to = rw.To, !.topic = rw.topic, !.payload = WriteMsg(msg),
                       !.pre = Found(n, rw.To, rw.topic)], {})

CallRegister(n, topic, handler) ==
    /\ Len(closures[n]) < MaxHandlers
    /\ Call(n, [Frame("Register", NilBytes, [topic |-> topic, handler |-> handler],
                      NoEnv, "194")
                   EXCEPT !.topic = topic, !.key = handler], {})

\* the deregister function returned by the h-th Register call is called
CallDeregister(n, h) ==
    /\ h \in 1..Len(closures[n])
    /\ Call(n, [Frame("deregister", NilBytes, [topic |-> closures[n][h].topic, h |-> h],
                      NoEnv, "281")
                   EXCEPT !.topic = closures[n][h].topic, !.id = h], {})

CallAddPeer(n, addr, topic) ==
    Call(n, [Frame("AddPeer", NilBytes, [addr |-> addr, topic |-> topic], NoEnv, "584")
                EXCEPT !.addr = addr, !.topic = topic, !.rw = PssReadWriter(addr, topic)],
         {})

\* injectMsg(msg) is called on rw: the send of line 686
CallInjectMsg(n, rw, msg) ==
    Call(n, [Frame("injectMsg", NilBytes, [msg |-> msg, rw |-> rw], NoEnv, "686")
                EXCEPT !.rw = rw, !.pmsg = msg], {})

\* a step of a goroutine that is in no call of Pss: the task of a
\* subprotocol in ReadMsg, the caller of Stop
Effect(n, op, arg, s) ==
    /\ ~crashed[n]
    /\ vrw' = [vrw EXCEPT ![n] = s.vrw]
    /\ stopped' = [stopped EXCEPT ![n] = s.stopped]
    /\ last' = [NoCall EXCEPT !.op = op, !.node = n, !.arg = arg]
    /\ UNCHANGED <<peerPool, reverseKeyPool, recvsymkeys, fwdcache, handlers, fwdPool,
                   overlay, symKeys, now, net, crashed, wedged, closures, tasks, fwdDone>>

\* a task calls ReadMsg on rw and waits
CallReadMsg(n, rw) ==
    /\ ~ChanOf(St(n), rw).reading
    /\ Len(ChanOf(St(n), rw).got) < MaxRead
    /\ Effect(n, "ReadMsg", [rw |-> rw], ReadMsg(St(n), rw))

\* the waiting ReadMsg on rw returns with the message of one of the senders
\* blocked on the channel
ReadMsgReturns(n, rw) ==
    /\ ChanOf(St(n), rw).reading
    /\ \E i \in 1..Len(ChanOf(St(n), rw).offered) :
          Effect(n, "ReadMsg returns", [msg |-> ChanOf(St(n), rw).offered[i].msg, rw |-> rw],
                 receive(St(n), rw, i))

\* Stop(): returns nil and does nothing
Stop(s) == [s EXCEPT !.stopped = TRUE]
CallStop(n) ==
    /\ ~stopped[n]
    /\ Effect(n, "Stop", << >>, Stop(St(n)))

\* ------------------------------------------------- the forwarder of one node
\* a message for a recipient that is not connected, received from either of
\* two neighbours, one read loop at a time, while the node and its overlay
\* connect to the two and the cache is written and asked from outside
Next ==
    \/ \E p \in Senders(NodeA) : CallRun(NodeA, p)
    \/ \E p \in Senders(NodeA), sender \in BOOLEAN : On(NodeA, p, sender)
    \/ Tick
    \/ \E addr \in CacheSenders(NodeA), msg \in RelayMsgs :
            CallAddToCache(NodeA, addr, msg, TRUE)
    \/ \E addr \in CacheSenders(NodeA), d \in Digests : CallCheckFwdCache(NodeA, addr, d)
    \/ /\ \A t \in Tasks : tasks[NodeA][t].op # "handlePssMsg"
       /\ \E from \in Senders(NodeA), msg \in RelayMsgs, depth \in Depths :
             CallHandlePssMsg(NodeA, from, msg, depth, "any", TRUE, "ka", FALSE)
    \/ Continue(NodeA)

Spec == Init /\ [][Next]_vars

\* ----------------------------------------------- the relay of one node
\* the same message in the read loops of two neighbours at the same time,
\* and filed in the cache from outside with no sender
NextFlood ==
    \/ \E p \in Senders(NodeA) : CallRun(NodeA, p)
    \/ \E p \in Senders(NodeA) : On(NodeA, p, TRUE)
    \/ Tick
    \/ \E msg \in RelayMsgs : CallAddToCache(NodeA, NilBytes, msg, TRUE)
    \/ \E from \in Senders(NodeA), msg \in RelayMsgs :
            CallHandlePssMsg(NodeA, from, msg, 5, "up", TRUE, "ka", FALSE)
    \/ Continue(NodeA)

SpecFlood == Init /\ [][NextFlood]_vars

\* ------------------------------------------- the forward cache of one node
\* two messages, one neighbour
NextCache ==
    \/ CallRun(NodeA, PeerD)
    \/ On(NodeA, PeerD, TRUE)
    \/ Tick
    \/ \E addr \in CacheSenders(NodeA), msg \in CacheMsgs :
            CallAddToCache(NodeA, addr, msg, TRUE)
    \/ \E addr \in {PeerD, NodeB}, msg \in CacheMsgs :
            CallCheckFwdCache(NodeA, addr, dpaStore(msg))
    \/ \E msg \in CacheMsgs : CallHandlePssMsg(NodeA, PeerD, msg, 5, "up", TRUE, "ka", FALSE)
    \/ Continue(NodeA)

SpecCache == Init /\ [][NextCache]_vars

\* ------------------------------------ forwarding while the store fails
NextStore ==
    \/ CallRun(NodeA, PeerD)
    \/ On(NodeA, PeerD, TRUE)
    \/ Tick
    \/ \E msg \in CacheMsgs, storeOK \in BOOLEAN, up \in {"up", "down"} :
            CallHandlePssMsg(NodeA, PeerD, msg, 5, up, storeOK, "ka", FALSE)
    \/ Continue(NodeA)

SpecStore == Init /\ [][NextStore]_vars

\* ------------------------------------------- the key registry of one node
NextKeys ==
    \/ Tick
    \/ Continue(NodeA)
    \/ \E addr \in KeyAddrs, topic \in KeyTopics :
            CallAddPublicKey(NodeA, addr, topic, PubKeyOf(addr))
    \/ \E addr \in KeyAddrs, topic \in KeyTopics, key \in {"ka"} :
            CallSetIncomingSymmetricKey(NodeA, addr, topic, key)
    \/ \E addr \in KeyAddrs, topic \in KeyTopics, key \in {"ka", BadRawKey} :
            CallSetOutgoingSymmetricKey(NodeA, addr, topic, key)
    \/ \E addr \in KeyAddrs, topic \in Topics : CallIsSecured(NodeA, addr, topic)
    \/ \E to \in KeyAddrs, topic \in Topics :
            CallSendSym(NodeA, to, topic, DataPayload("hello"), 5, "up", TRUE, FALSE)

SpecKeys == Init /\ [][NextKeys]_vars

\* ----------------------------------------------- the senders of one node
NextSend ==
    \/ CallRun(NodeA, PeerD)
    \/ On(NodeA, PeerD, TRUE)
    \/ Continue(NodeA)
    \/ \E addr \in KeyAddrs, topic \in KeyTopics :
            CallAddPublicKey(NodeA, addr, topic, PubKeyOf(addr))
    \/ \E addr \in KeyAddrs, topic \in KeyTopics, key \in {"ka"} :
            CallSetIncomingSymmetricKey(NodeA, addr, topic, key)
    \/ \E addr \in KeyAddrs, topic \in KeyTopics, key \in {"ka"} :
            CallSetOutgoingSymmetricKey(NodeA, addr, topic, key)
    \* one goroutine sends
    \/ /\ \A t \in Tasks : tasks[NodeA][t].op \notin {"SendSym", "SendAsym"}
       /\ \E to \in KeyAddrs, topic \in KeyTopics :
             \/ CallSendSym(NodeA, to, topic, DataPayload("hello"), 5, "any", TRUE, FALSE)
             \/ CallSendAsym(NodeA, to, topic, DataPayload("hello"), 5, "any", TRUE, FALSE)

SpecSend == Init /\ [][NextSend]_vars

\* ---------------------------------------- symmetric messages to one node
NextOpen ==
    \/ CallRun(NodeA, PeerD)
    \/ Tick
    \/ Continue(NodeA)
    \* a public key filed under the all-zero address
    \/ \E topic \in KeyTopics : CallAddPublicKey(NodeA, ZeroAddr, topic, PubKeyOf(ZeroAddr))
    \/ \E addr \in KeyAddrs, topic \in KeyTopics, key \in {"ka"} :
            CallSetIncomingSymmetricKey(NodeA, addr, topic, key)
    \/ \E addr \in KeyAddrs, topic \in KeyTopics, key \in {"ka"} :
            CallSetOutgoingSymmetricKey(NodeA, addr, topic, key)
    \/ \E from \in {PeerD}, msg \in SelfMsgs(NodeA) :
            CallHandlePssMsg(NodeA, from, msg, 5, "up", TRUE, "ka", FALSE)

SpecOpen == Init /\ [][NextOpen]_vars

\* ------------------------------------------- the handlers of one node
NextHandlers ==
    \/ CallRun(NodeA, PeerD)
    \/ Continue(NodeA)
    \/ \E topic \in Topics : CallRegister(NodeA, topic, "plain")
    \/ \E h \in 1..MaxHandlers : CallDeregister(NodeA, h)
    \/ CallSetIncomingSymmetricKey(NodeA, NodeB, "T1", "ka")
    \/ CallSetOutgoingSymmetricKey(NodeA, NodeB, "T1", "ka")
    \/ CallHandlePssMsg(NodeA, PeerD, PssMsg(NodeA, SymEnv("T1", "ka")), 5, "up", TRUE, "ka",
                        FALSE)

SpecHandlers == Init /\ [][NextHandlers]_vars

\* ------------------------------------------------ the devp2p bridge
Other(n) == IF n = NodeA THEN NodeB ELSE NodeA
\* framed messages of a subprotocol
P2pMsgs == {[Payload |-> <<7, 8>>, Code |-> c, Size |-> 2] : c \in {1, 2}}

\* NodeB is connected to NodeA, also in its overlay, and has the handler of
\* a PssProtocol registered for the topic before NodeA begins
NextBridge ==
    \/ \E n \in Nodes : Continue(n)
    \/ CallRun(NodeB, NodeA)
    \/ NodeA \in fwdPool[NodeB] /\ On(NodeB, NodeA, TRUE)
    \/ closures[NodeB] = << >> /\ CallRegister(NodeB, "T1", "proto")
    \/ /\ NodeA \in DOMAIN overlay[NodeB] /\ getHandlers(St(NodeB), "T1") # {}
       /\ \/ CallRun(NodeA, NodeB)
          \/ NodeB \in fwdPool[NodeA] /\ On(NodeA, NodeB, TRUE)
          \/ CallAddPublicKey(NodeA, NodeB, "T1", PubKeyOf(NodeB))
          \/ CallSetIncomingSymmetricKey(NodeA, NodeB, "T1", "kb")
          \/ CallSetOutgoingSymmetricKey(NodeA, NodeB, "T1", "ka")
          \* the subprotocol of NodeA's session with NodeB writes a framed message
          \/ \E msg \in {m \in P2pMsgs : m.Code = 1} :
                  CallWriteMsg(NodeA, PssReadWriter(NodeB, "T1"), msg, "up")
    \* a message on the wire reaches the read loop of its destination
    \/ \E m \in net : CallHandlePssMsg(m.to, m.from, m.msg, 5, "up", TRUE, "kb", TRUE)

SpecBridge == Init /\ [][NextBridge]_vars

\* ------------------------------------------- the sessions of one node
\* a framed message of NodeA's subprotocol, sealed with the symmetric key of
\* the pair
SessionMsgs ==
    {PssMsg(NodeB, [key |-> "ka", Topic |-> "T1", enc |-> "sym", Src |-> Unsigned,
                    payload |-> ProtoPayload(m.Code, m.Size, m.Payload)]) :
        m \in {x \in P2pMsgs : x.Code = 1}}

NextSession ==
    \/ Continue(NodeB)
    \/ CallRun(NodeB, NodeA)
    \/ CallSetIncomingSymmetricKey(NodeB, NodeA, "T1", "ka")
    \/ CallSetOutgoingSymmetricKey(NodeB, NodeA, "T1", "ka")
    \* the handler of a PssProtocol is registered for the topic
    \/ CallRegister(NodeB, "T1", "proto")
    \/ \E msg \in SessionMsgs :
            CallHandlePssMsg(NodeB, NodeA, msg, 5, "up", TRUE, "kb", FALSE)
    \/ CallAddPeer(NodeB, NodeA, "T1")

SpecSession == Init /\ [][NextSession]_vars

\* ------------------------------------- virtual-protocol tasks and shutdown
RWs == {PssReadWriter(NodeB, t) : t \in Topics}
StReadMsgReturns == \E rw \in RWs : ReadMsgReturns(NodeA, rw)

NextStop ==
    \/ \E rw \in RWs : CallReadMsg(NodeA, rw)
    \/ \E rw \in RWs, msg \in P2pMsgs : CallInjectMsg(NodeA, rw, msg)
    \/ Continue(NodeA)
    \/ StReadMsgReturns
    \/ CallStop(NodeA)

\* a ReadMsg that can return does return, and a goroutine that can go on
\* does go on
SpecStop == Init /\ [][NextStop]_vars /\ WF_vars(StReadMsgReturns) /\ WF_vars(Continue(NodeA))

\* ------------------------------- asymmetric messages reaching one node
\* a key chosen by a node that is not the peer it names
ForgedKey == "kx"
AsymEnv(topic, pub, src, payload) ==
    [key |-> pub, Topic |-> topic, enc |-> "asym", Src |-> src, payload |-> payload]
\* messages addressed to NodeA that none of its inbound symkeys opens: sealed
\* to NodeA or to somebody else, signed by NodeB, badly signed, or signed by
\* a third node that names NodeB as the sender; and one sealed with a
\* symmetric key NodeA does not hold
AsymMsgs ==
    {PssMsg(NodeA, AsymEnv("T1", pub, src, pl)) :
        pub \in {PubKeyOf(NodeA), PubKeyOf(PeerC)},
        src \in {PubKeyOf(NodeB), BadSig},
        pl \in {KeyPayload(NodeB, "ka"), DataPayload("m")}}
    \cup {PssMsg(NodeA, AsymEnv("T1", PubKeyOf(NodeA), PubKeyOf(PeerC),
                                KeyPayload(NodeB, ForgedKey)))}
    \cup {PssMsg(NodeA, OpaqueEnv)}

NextAsym ==
    \/ CallRun(NodeA, PeerD)
    \/ On(NodeA, PeerD, TRUE)
    \/ Continue(NodeA)
    \/ CallSetIncomingSymmetricKey(NodeA, NodeB, "T1", "kb")
    \/ CallSetOutgoingSymmetricKey(NodeA, NodeB, "T1", "ka")
    \/ \E from \in {PeerD}, msg \in AsymMsgs :
            CallHandlePssMsg(NodeA, from, msg, 5, "up", TRUE, "kb", FALSE)

SpecAsym == Init /\ [][NextAsym]_vars

\* ------------------------------------------------ two nodes shaking hands
\* NodeA offers NodeB a key; NodeB is connected to NodeA, also in its
\* overlay, and has filed its public key before NodeA begins
NextHS ==
    \/ \E n \in Nodes : Continue(n)
    \/ CallRun(NodeB, NodeA)
    \/ NodeA \in fwdPool[NodeB] /\ On(NodeB, NodeA, TRUE)
    \/ ~HasPeer(St(NodeB), NodeA, "T1") /\ CallAddPublicKey(NodeB, NodeA, "T1", PubKeyOf(NodeA))
    \/ /\ NodeA \in DOMAIN overlay[NodeB] /\ HasPeer(St(NodeB), NodeA, "T1")
       /\ peerPool[NodeB][NodeA]["T1"].pubkey = PubKeyOf(NodeA)
       /\ \/ CallRun(NodeA, NodeB)
          \/ NodeB \in fwdPool[NodeA] /\ On(NodeA, NodeB, TRUE)
          \/ CallAddPublicKey(NodeA, NodeB, "T1", PubKeyOf(NodeB))
          \* the initiator installs the key it is about to offer as its inbound key
          \/ CallSetIncomingSymmetricKey(NodeA, NodeB, "T1", "ka")
          \* and sends the handshake: HandshakeKeyMessage{from, key} sealed to the peer
          \/ /\ HasPeer(St(NodeA), NodeB, "T1")
             /\ peerPool[NodeA][NodeB]["T1"].recvsymkey # EmptyId
             /\ CallSendAsym(NodeA, NodeB, "T1", KeyPayload(NodeA, "ka"), 5, "up", TRUE, TRUE)
    \* a message on the wire reaches the read loop of its destination
    \/ \E m \in net : CallHandlePssMsg(m.to, m.from, m.msg, 5, "up", TRUE, "kb", TRUE)

SpecHS == Init /\ [][NextHS]_vars

\* ================================================================ properties
\* The properties speak of the last step (last: a call that ended, with what
\* it returned and did) and of single statements (tasks before and after).
\* the last step ended a call that returned (it neither ended the process
\* nor waits for ever)
Returned == last.ret \notin {Panic, Fatal, Deadlock, Exit}
FannedOut == last.fwd # << >> /\ ~last.fwd[1].guard /\ Returned
\* a fan-out of digest d completed on node n less than the cache ttl ago
InWindow(n, d) == d \in DOMAIN fwdDone[n] /\ now < fwdDone[n][d].at + Cachettl
\* the entry of digest d in the cache c of one node, the zero entry if absent
EntryOf(c, d) == IF d \in DOMAIN c THEN c[d] ELSE pssCacheEntry
\* the step just taken was the statement pc of the goroutine in slot t of
\* node n, and it ended the call (Ended) or did not
Step(n, t, pc) == last'.node = n /\ last'.t = t /\ last'.pc = pc
Ended == last'.op = last'.of
\* the caches c and c2 of one node agree on every digest but d
SameBut(c, c2, d) ==
    /\ DOMAIN c2 \ {d} = DOMAIN c \ {d}
    /\ \A x \in DOMAIN c \ {d} : c2[x] = c[x]

\* C1: for every digest and every non-empty candidate, checkFwdCache returns
\* true exactly when the cache holds an entry for the digest whose expiresAt
\* is later than now, or whose expiresAt is unset while the candidate equals
\* its receivedFrom; and the call leaves the cache as it was.
C1_CheckFwdCacheContract ==
    [][(last'.op = "checkFwdCache" /\ last'.arg.addr # NilBytes) =>
         LET n == last'.node
             d == last'.arg.digest
             has == d \in DOMAIN fwdcache[n]
         IN /\ (last'.ret = "true") <=>
                  (has /\ (\/ fwdcache[n][d].expiresAt > now
                           \/ (/\ fwdcache[n][d].expiresAt = ZeroTime
                               /\ last'.arg.addr = fwdcache[n][d].receivedFrom)))
            /\ (~has => last'.ret = "false")
            /\ (has /\ fwdcache[n][d].expiresAt # ZeroTime
                    /\ fwdcache[n][d].expiresAt <= now => last'.ret = "false")
            /\ fwdcache' = fwdcache]_vars
\* the sender rule has answered for a candidate, on an entry with no expiry,
\* while the entry of another digest has expired
C1_Witness ==
    /\ last.op = "checkFwdCache" /\ last.arg.addr # NilBytes /\ last.ret = "true"
    /\ fwdcache[last.node][last.arg.digest].expiresAt = ZeroTime
    /\ \E d \in DOMAIN fwdcache[last.node] :
          /\ fwdcache[last.node][d].expiresAt # ZeroTime
          /\ fwdcache[last.node][d].expiresAt <= now

\* C2: with a null candidate checkFwdCache answers by the expiry alone: it is
\* true only for an entry whose expiresAt is later than now, so the flood
\* guard of Forward drops nothing whose digest has no unexpired entry.
C2_NullCandidateExpiryOnly ==
    /\ (last.op = "checkFwdCache" /\ last.arg.addr = NilBytes /\ last.ret = "true") =>
          /\ last.arg.digest \in DOMAIN fwdcache[last.node]
          /\ fwdcache[last.node][last.arg.digest].expiresAt > now
    /\ (last.pc = "531" /\ last.fwd # << >> /\ last.fwd[1].guard) =>
          /\ last.fwd[1].digest \in DOMAIN fwdcache[last.node]
          /\ fwdcache[last.node][last.fwd[1].digest].expiresAt > now

\* C3: a relayed message is never sent back to the neighbour whose read loop
\* delivered it.
C3_NoBounce ==
    (last.op = "handlePssMsg" /\ last.arg.msg.To # last.node) =>
        \A i \in 1..Len(last.sends) : last.sends[i].to # last.arg.from

\* C4, as the specification words it: once a fan-out of digest D has
\* completed with a successful send, every later Forward of D that starts
\* before the cache ttl has elapsed sends nothing and returns nil.
C4_SuppressedFromStart ==
    (/\ last.op = "handlePssMsg" /\ last.fwd # << >> /\ Returned
     /\ last.fwd[1].digest \in DOMAIN last.pre.done
     /\ last.pre.at < last.pre.done[last.fwd[1].digest].at + Cachettl) =>
        (last.sends = << >> /\ last.ret = Nil)

\* C4, as the code behaves: once a fan-out of digest D has completed with a
\* successful send, every Forward of D whose flood guard runs before the
\* cache ttl has elapsed is dropped there: it enters no iteration, sends
\* nothing and returns nil.
C4_FloodSuppression ==
    [][\A n \in Nodes : \A t \in Tasks :
          (Step(n, t, "531") /\ InWindow(n, tasks[n][t].digest)) =>
              (/\ Ended /\ last'.fwd[1].guard /\ last'.fwd[1].iter = << >>
               /\ last'.sends = << >> /\ last'.ret = Nil)]_vars
\* a second copy arrived from another neighbour inside the window and was
\* dropped by the flood guard
C4_Witness ==
    /\ last.op = "handlePssMsg" /\ last.fwd # << >> /\ last.fwd[1].guard
    /\ last.sends = << >> /\ last.ret = Nil
    /\ InWindow(last.node, last.fwd[1].digest)
    /\ last.arg.from = NodeB
    /\ fwdcache[last.node][last.fwd[1].digest].receivedFrom = NilBytes

PosIn(iter, p) == IF \E i \in 1..Len(iter) : iter[i].addr = p
                  THEN CHOOSE i \in 1..Len(iter) : iter[i].addr = p ELSE 0
FirstStop(iter, to) ==
    IF \E i \in 1..Len(iter) : iter[i].addr = to \/ ~iter[i].isproxbin
    THEN CHOOSE i \in 1..Len(iter) :
            /\ iter[i].addr = to \/ ~iter[i].isproxbin
            /\ \A j \in 1..(i - 1) : ~(iter[j].addr = to \/ ~iter[j].isproxbin)
    ELSE Len(iter)
\* C10: the fan-out stops after the first yielded peer that is the
\* recipient or lies outside its proximity bin; no peer past it is sent to
\* (stated for the fan-outs in which checkFwdCache skips no peer).
C10_StopAtFirstOutOfBin ==
    (FannedOut /\ \A i \in 1..Len(last.fwd[1].tried) : ~last.fwd[1].tried[i].hit) =>
        \A i \in 1..Len(last.sends) :
            PosIn(last.fwd[1].iter, last.sends[i].to)
                <= FirstStop(last.fwd[1].iter, last.fwd[1].To)

\* C11: a Forward that passed the flood guard returns, with the
\* unable-to-forward error exactly when no send succeeded; a failed send on
\* some peers does not fail the call, and on success the digest's entry
\* expires at now + cachettl (the exit at log.Crit, for a connection that
\* is no senderPeer, aside).
C11_ForwardOutcome ==
    (/\ last.op = "handlePssMsg" /\ last.arg.msg.To # last.node
     /\ last.fwd # << >> /\ ~last.fwd[1].guard
     /\ last.x.race = "" /\ last.ret # Exit) =>
        /\ last.ret \in {Nil, NoRoute}
        /\ (last.ret = NoRoute) <=> (last.sends = << >>)
        /\ (last.sends # << >>) =>
              /\ last.fwd[1].digest \in DOMAIN fwdcache[last.node]
              /\ fwdcache[last.node][last.fwd[1].digest].expiresAt = now + Cachettl

\* C16: the entry point of the transport read loop returns success for every
\* inbound message, whatever went wrong in forwarding or decoding it.
C16_InboundErrorsSwallowed ==
    last.op = "handlePssMsg" => last.ret = Nil

\* C19: addFwdCacheSender sets receivedFrom and keeps expiresAt,
\* addFwdCacheExpire sets expiresAt = now + cachettl and keeps receivedFrom;
\* each creates the entry if absent and leaves every other digest alone.
C19_CacheMutatorsFrame ==
    [][\A n \in Nodes :
          /\ (last'.op = "AddToCache" /\ last'.node = n /\ last'.ret = Nil) =>
                LET d == dpaStore(last'.arg.msg)
                IN /\ d \in DOMAIN fwdcache'[n]
                   /\ fwdcache'[n][d].receivedFrom = last'.arg.addr
                   /\ fwdcache'[n][d].expiresAt = EntryOf(fwdcache[n], d).expiresAt
                   /\ SameBut(fwdcache[n], fwdcache'[n], d)
          /\ (last'.pc = "574" /\ last'.node = n) =>
                LET d == last'.fwd[1].digest
                IN /\ d \in DOMAIN fwdcache'[n]
                   /\ fwdcache'[n][d].expiresAt = now + Cachettl
                   /\ fwdcache'[n][d].receivedFrom = EntryOf(fwdcache[n], d).receivedFrom
                   /\ SameBut(fwdcache[n], fwdcache'[n], d)]_vars
\* an expiry was set on an entry that records a sender, beside the entry of
\* another digest
C19_Witness ==
    /\ last.pc = "574"
    /\ fwdcache[last.node][last.fwd[1].digest].receivedFrom # NilBytes
    /\ fwdcache[last.node][last.fwd[1].digest].expiresAt = now + Cachettl
    /\ \E x \in DOMAIN fwdcache[last.node] : x # last.fwd[1].digest

\* C27: suppression takes effect only after a fan-out completes: the flood
\* guard drops a message only when an earlier Forward of its digest has
\* completed its fan-out and set the expiry.
C27_SuppressionAfterFanOut ==
    (last.pc = "531" /\ last.op = "handlePssMsg" /\ last.fwd # << >> /\ last.fwd[1].guard) =>
        last.fwd[1].digest \in DOMAIN fwdDone[last.node]

\* C29, as the specification words it: after one message whose store failed
\* has been forwarded, any other message whose store also fails within the
\* cache ttl is dropped with success and nothing sent.
C29_StoreFailureSuppressed ==
    (/\ last.op = "handlePssMsg" /\ last.fwd # << >> /\ Returned /\ ~last.e.storeOK
     /\ ZeroDigest \in DOMAIN last.pre.done
     /\ last.pre.done[ZeroDigest].msg # last.arg.msg
     /\ last.fwd[1].at < last.pre.done[ZeroDigest].at + Cachettl) =>
        (last.sends = << >> /\ last.ret = Nil)

\* C29, as the code behaves: when storeMsg fails Forward goes on with the
\* all-zero digest: the flood guard and the expiry are those of the zero
\* digest, so that after one such message was forwarded every message whose
\* store fails and whose flood guard runs before the cache ttl has elapsed
\* is dropped with success and nothing sent.
C29_StoreFailureZeroDigest ==
    [][\A n \in Nodes : \A t \in Tasks :
          /\ (Step(n, t, "525") /\ ~tasks[n][t].e.storeOK) =>
                (~Ended /\ tasks'[n][t].digest = ZeroDigest)
          /\ (Step(n, t, "531") /\ ~tasks[n][t].e.storeOK
               /\ InWindow(n, ZeroDigest)) =>
                (/\ Ended /\ last'.fwd[1].guard /\ last'.ret = Nil
                 /\ last'.sends = << >> /\ fwdcache' = fwdcache)
          /\ (Step(n, t, "574") /\ ~tasks[n][t].e.storeOK) =>
                /\ ZeroDigest \in DOMAIN fwdcache'[n]
                /\ fwdcache'[n][ZeroDigest].expiresAt = now + Cachettl]_vars
\* the message for RecipR went out although its store failed, and the
\* message for PeerC, whose store failed too, was then dropped
C29_Witness ==
    /\ last.op = "handlePssMsg" /\ ~last.e.storeOK
    /\ last.arg.msg = PssMsg(PeerC, OpaqueEnv)
    /\ last.fwd[1].guard /\ last.ret = Nil /\ last.sends = << >>
    /\ InWindow(NodeA, ZeroDigest)
    /\ fwdDone[NodeA][ZeroDigest].msg = PssMsg(RecipR, OpaqueEnv)

\* the address a send names, as the registry files it
LastTo == copyToAddr(last.arg.to)
\* the key registry of a node: PeerTopicStates, reverse index, inbound-try
\* list and the symkey table behind them
KeyState == <<peerPool, reverseKeyPool, recvsymkeys, symKeys>>
\* a PeerTopicState for (a, t) is in the registry pool
HasIn(pool, a, t) == a \in DOMAIN pool /\ t \in DOMAIN pool[a]
HasPeerTopic(n, a, t) == HasIn(peerPool[n], a, t)
\* the last step ended a send that returned, on a pair that was secured
\* when it began and is secured now
SecuredSend ==
    /\ last.op \in {"SendSym", "SendAsym"} /\ Returned
    /\ last.pre.secured /\ Secured(last.node, LastTo, last.arg.topic)

\* C6: SendSym to a pair that is not secured (address never seen, topic never
\* installed for a known address, one symkey missing, keys expired) returns
\* the not-secured error and neither seals, sends nor touches the cache.
C6_NotSecuredError ==
    (last.op = "SendSym" /\ ~Secured(last.node, LastTo, last.arg.topic)
     /\ ~last.pre.secured) =>
        (/\ last.ret = "missing complete handshake"
         /\ last.sends = << >> /\ last.fwd = << >>)

\* C8: on a secured pair both SendSym and SendAsym fail only for transport
\* failure, whether or not a public key was ever added.
C8_SecuredSendsSucceed ==
    SecuredSend => last.ret \in {Nil, NoRoute}

\* C9: every inbound symkey id installed for (addr, topic) is mapped by the
\* reverse index to addr, and the sender Process takes for a message that
\* opens with key id K is the address K was installed for.
C9_SenderIdentification ==
    /\ \A n \in Nodes :
          (\A u \in Tasks : tasks[n][u].op = "idle") =>
              \A a \in DOMAIN peerPool[n] : \A t \in DOMAIN peerPool[n][a] :
                  peerPool[n][a][t].recvsymkey # EmptyId =>
                      reverseLookup(St(n), peerPool[n][a][t].recvsymkey, t) = a
    /\ (last.op = "handlePssMsg" /\ last.opened # << >>) =>
          /\ last.opened[1].symkeyid \in DOMAIN reverseKeyPool[last.node]
          /\ \E t \in DOMAIN reverseKeyPool[last.node][last.opened[1].symkeyid] :
                reverseKeyPool[last.node][last.opened[1].symkeyid][t] = last.opened[1].from

\* C18: a message to self that opens with an installed inbound symkey, from
\* a sender that is not secured for the envelope topic, invokes no handler,
\* changes nothing in the key registry and returns success.
C18_UnsecuredSenderDropped ==
    (/\ last.op = "handlePssMsg" /\ last.opened # << >>
     /\ ~Secured(last.node, last.opened[1].from, last.arg.msg.Payload.Topic)) =>
        (last.ret = Nil /\ last.calls = << >>)

\* C20: isSecured(addr, topic), called while no other goroutine is in a
\* call, returns, and returns true exactly when a PeerTopicState exists for
\* (addr, topic) with both symkey ids set and an expiry in the future.
C20_SecuredIffKeysAndExpiry ==
    [][(/\ last'.op = "isSecured"
        /\ \A u \in Tasks \ {last'.t} : tasks[last'.node][u].op = "idle") =>
          LET n == last'.node
              a == last'.arg.addr
              t == last'.arg.topic
          IN /\ last'.ret \in {"true", "false"}
             /\ (last'.ret = "true") <=>
                   (/\ HasPeerTopic(n, a, t)
                    /\ peerPool[n][a][t].recvsymkey # EmptyId
                    /\ peerPool[n][a][t].sendsymkey # EmptyId
                    /\ peerPool[n][a][t].symkeyexpires > now)]_vars

\* the five structures Pss.lock is there for
Guarded == (Maps \ {"fwdPool"})
           \cup {"pubkey", "recvsymkey", "sendsymkey", "symkeyexpires", "rw"}

\* C23: one mutex guards the shared state: a goroutine touches peerPool,
\* reverseKeyPool, recvsymkeys, the forward cache or the handler map only
\* while it holds Pss.lock, so no two goroutines are in one of these
\* structures at the same time with one of them writing it
C23_OneMutexGuardsAll ==
    \A n \in Nodes : \A t \in Tasks :
        /\ \A l \in Races(St(n), t) : l.m \notin Guarded
        /\ tasks[n][t].op # "idle" =>
              \/ Touch(St(n), tasks[n][t]).locked
              \/ \A l \in Touch(St(n), tasks[n][t]).reads
                            \cup Touch(St(n), tasks[n][t]).writes : l.m \notin Guarded

\* C28: SendAsym returns for every input; for a pair with no PeerTopicState
\* or no public key it returns an error, sends nothing and leaves the key
\* registry and the forward cache as they were.
C28_SendAsymTotal ==
    /\ last.op = "SendAsym" => last.ret \notin {Panic, Fatal}
    /\ (/\ last.op = "SendAsym"
        /\ \/ ~HasPeerTopic(last.node, LastTo, last.arg.topic)
           \/ peerPool[last.node][LastTo][last.arg.topic].pubkey = ZeroPubKey) =>
          (last.ret \notin {Nil, Panic, Fatal} /\ last.sends = << >> /\ last.fwd = << >>)

\* the handlers registered on topic t in the handler map hm of a node
Registered(hm, t) == IF t \in DOMAIN hm THEN hm[t] ELSE {}
\* the raw key a symkey table holds under id, "" if none
KeyIn(table, id) == IF id \in DOMAIN table THEN table[id] ELSE ""
KeyOf(n, id) == KeyIn(symKeys[n], id)

\* C13: calling a deregister function removes the registration it was
\* returned for and no other, also when it is called a second time.
C13_DeregisterExactlyOne ==
    [][\A n \in Nodes : (last'.op = "deregister" /\ last'.node = n) =>
          \A t \in Topics :
              Registered(handlers'[n], t) =
                  Registered(handlers[n], t)
                      \ (IF t = last'.arg.topic THEN {last'.arg.h} ELSE {})]_vars

\* C14: a framed message written with WriteMsg towards a node that has a
\* protocol registered for the topic is, once that node has processed it,
\* handed to the protocol's handler and on the channel of the sender's
\* PssReadWriter with the same code, size and payload.
C14_BridgeRoundTrip ==
    (/\ last.op = "handlePssMsg"
     /\ last.arg.msg.To = last.node
     /\ last.arg.msg.Payload.enc = "asym"
     /\ last.arg.msg.Payload.key = PubKeyOf(last.node)
     /\ last.arg.msg.Payload.payload.kind = "proto"
     /\ \E h \in Registered(handlers[last.node], last.arg.msg.Payload.Topic) :
           closures[last.node][h].fn = "proto") =>
        LET m == ToP2pMsg(last.arg.msg.Payload.payload).msg
            c == ChanOf(St(last.node),
                        PssReadWriter(last.arg.from, last.arg.msg.Payload.Topic))
        IN /\ last.calls # << >>
           /\ \/ \E i \in 1..Len(c.offered) : c.offered[i].msg = m
              \/ \E i \in 1..Len(c.got) : c.got[i] = m

\* C15: after Stop every ReadMsg waiting on a channel returns.
C15_StopReleasesReaders ==
    \A rw \in RWs :
        (stopped[NodeA] /\ ChanOf(St(NodeA), rw).reading)
            ~> ~ChanOf(St(NodeA), rw).reading

\* C17: a message to self that opens with an inbound symkey of a secured
\* sender gets the no-handler error and no call when the topic has no
\* handler; otherwise every handler registered for the topic from the
\* beginning of the dispatch to its end is called once with the plaintext and
\* the sender's address, and the call returns a handler's error if one errs
\* and nil if none does.
C17_HandlerDispatch ==
    (/\ last.op = "handlePssMsg" /\ last.opened # << >> /\ Returned
     /\ last.pc \in {"428", "435"}) =>
        IF last.held = << >>
        THEN last.ret = "No registered handler for topic" /\ last.calls = << >>
        ELSE /\ \A h \in last.held[1] \cap
                           Registered(handlers[last.node], last.arg.msg.Payload.Topic) :
                    \E i \in 1..Len(last.calls) : last.calls[i].handler = h
             /\ \A i \in 1..Len(last.calls) :
                   last.calls[i].handler # 0 =>
                      /\ last.calls[i].payload = last.arg.msg.Payload.payload
                      /\ last.calls[i].from = last.opened[1].from
             /\ (last.ret = "handler error")
                    <=> (\E i \in 1..Len(last.calls) : last.calls[i].err)

\* C24: the first inbound payload from a (remote_addr, topic) without an
\* active session, handed to the protocol's handler, leaves a PssReadWriter
\* stored as the rw of that PeerTopicState and the payload on its channel,
\* and the call returns.
C24_SessionStart ==
    (/\ last.op = "handlePssMsg" /\ last.calls # << >>
     /\ closures[last.node][last.calls[1].handler].fn = "proto") =>
        LET n == last.node
            from == last.calls[1].from
            T == last.arg.msg.Payload.Topic
            m == ToP2pMsg(last.calls[1].payload).msg
            c == ChanOf(St(n), PssReadWriter(from, T))
        IN /\ last.ret = Nil /\ ~crashed[n]
           /\ HasPeerTopic(n, from, T)
           /\ peerPool[n][from][T].rw = PssReadWriter(from, T)
           /\ \/ \E i \in 1..Len(c.offered) : c.offered[i].msg = m
              \/ \E i \in 1..Len(c.got) : c.got[i] = m

\* C25: every message the dispatcher hands to the protocol handler of a
\* session is on the channel of the session's PssReadWriter, waiting or
\* returned by ReadMsg, once and only once.
C25_SessionOrder ==
    (last.op = "handlePssMsg" /\ last.x.race = "") =>
        \A i \in 1..Len(last.calls) :
            (/\ last.calls[i].handler # 0
             /\ closures[last.node][last.calls[i].handler].fn = "proto") =>
                LET m == ToP2pMsg(last.calls[i].payload).msg
                    c == ChanOf(St(last.node),
                                PssReadWriter(last.calls[i].from,
                                              last.arg.msg.Payload.Topic))
                IN Cardinality({j \in 1..Len(c.offered) : c.offered[j].msg = m})
                      + Cardinality({j \in 1..Len(c.got) : c.got[j] = m}) = 1

\* C26: a write through a PssReadWriter is sent asymmetrically while
\* (To, topic) is not secured and symmetrically, sealed with the outbound
\* symkey, once it is.
C26_WritePathBySecurity ==
    (last.op = "WriteMsg" /\ last.sends # << >> /\ last.pre.at = now) =>
        \A i \in 1..Len(last.sends) :
            IF last.pre.secured
            THEN /\ last.sends[i].msg.Payload.enc = "sym"
                 /\ last.sends[i].msg.Payload.key =
                       KeyOf(last.node,
                             peerPool[last.node][last.arg.rw.To][last.arg.rw.topic].sendsymkey)
            ELSE Secured(last.node, last.arg.rw.To, last.arg.rw.topic)
                    \/ last.sends[i].msg.Payload.enc = "asym"

\* msg is, for node n, a validly signed handshake: addressed to n, opened by
\* none of its inbound symkeys but by its private key, carrying a
\* HandshakeKeyMessage with a key of the right size
HandshakeFor(n, msg) ==
    /\ msg.To = n
    /\ trySymKeys(St(n), msg.Payload, 1) = 0
    /\ OpenAsymmetric(msg.Payload, PubKeyOf(n))
    /\ Validate(msg.Payload)
    /\ msg.Payload.payload.kind = "keymsg"
    /\ msg.Payload.payload.Key # BadRawKey
\* the last step ended the processing of a validly signed handshake
HandshakeDone ==
    last.op = "handlePssMsg" /\ last.ret # Fatal /\ HandshakeFor(last.node, last.arg.msg)
\* the peer a handshake names, and its topic
HsFrom == copyToAddr(last.arg.msg.Payload.payload.From)
HsTopic == last.arg.msg.Payload.Topic
\* the key the handshake carries is the outbound key of the pair it names
HsKeyInstalled ==
    /\ HasPeerTopic(last.node, HsFrom, HsTopic)
    /\ KeyOf(last.node, peerPool[last.node][HsFrom][HsTopic].sendsymkey)
          = last.arg.msg.Payload.payload.Key

\* the two nodes hold each other's public key on T1
KeysExchanged ==
    \A a \in Nodes : /\ HasPeerTopic(a, Other(a), "T1")
                     /\ peerPool[a][Other(a)]["T1"].pubkey = PubKeyOf(Other(a))
\* msg is the handshake the initiator Other(n) sent to n on T1: it carries
\* the key Other(n) holds as its inbound key for (n, T1)
HandshakeFrom(n, msg) ==
    /\ HandshakeFor(n, msg)
    /\ msg.Payload.Topic = "T1"
    /\ msg.Payload.payload.From = Other(n)
    /\ HasPeerTopic(Other(n), n, "T1")
    /\ peerPool[Other(n)][n]["T1"].recvsymkey # EmptyId
    /\ msg.Payload.payload.Key = KeyOf(Other(n), peerPool[Other(n)][n]["T1"].recvsymkey)
\* the last call was node n opening, with its inbound key for (Other(n), T1),
\* the symmetric reply in which Other(n) returns a fresh key
OpenedReply(n) ==
    /\ last.op = "handlePssMsg" /\ last.node = n /\ last.opened # << >>
    /\ last.opened[1].from = Other(n)
    /\ last.arg.msg.Payload.Topic = "T1"
    /\ HasPeerTopic(Other(n), n, "T1")
    /\ peerPool[Other(n)][n]["T1"].recvsymkey # EmptyId
    /\ last.arg.msg.Payload.payload.body =
          KeyOf(Other(n), peerPool[Other(n)][n]["T1"].recvsymkey)

\* C7: with the public keys exchanged, a responder that processes the
\* initiator's handshake holds the offered key as its outbound key and is
\* secured for the initiator afterwards; once the initiator has received and
\* opened the responder's reply, the pair is secured on both sides.
C7_HandshakeCompletes ==
    \A n \in Nodes :
        /\ (/\ KeysExchanged
            /\ last.op = "handlePssMsg" /\ last.node = n /\ last.ret # Fatal
            /\ HandshakeFrom(n, last.arg.msg))
               => Secured(n, Other(n), "T1")
        /\ (KeysExchanged /\ OpenedReply(n)) =>
               (Secured(n, Other(n), "T1") /\ Secured(Other(n), n, "T1"))

\* C21: processing a validly signed handshake {from, key} on topic T installs
\* key as the outbound symkey of (from, T); it returns nil, an inbound key is
\* installed for the pair (state, try list, reverse index), and at most one
\* message is sent, a symmetric one to from, sealed with key and carrying the
\* inbound key of the pair.
C21_HandshakeResponder ==
    HandshakeDone =>
        /\ last.ret = Nil
        /\ HsKeyInstalled
        /\ peerPool[last.node][HsFrom][HsTopic].recvsymkey # EmptyId
        /\ \E i \in 1..Len(recvsymkeys[last.node]) :
              recvsymkeys[last.node][i] = peerPool[last.node][HsFrom][HsTopic].recvsymkey
        /\ reverseLookup(St(last.node), peerPool[last.node][HsFrom][HsTopic].recvsymkey,
                         HsTopic) = HsFrom
        /\ Len(last.sends) <= 1
        /\ \A i \in 1..Len(last.sends) :
              /\ last.sends[i].msg.To = last.arg.msg.Payload.payload.From
              /\ last.sends[i].msg.Payload.Topic = HsTopic
              /\ last.sends[i].msg.Payload.enc = "sym"
              /\ last.sends[i].msg.Payload.key = last.arg.msg.Payload.payload.Key
              /\ last.sends[i].msg.Payload.payload.body
                    = KeyOf(last.node, peerPool[last.node][HsFrom][HsTopic].recvsymkey)

\* C22: for a message to self that no installed inbound symkey opens, the
\* asymmetric branch of Process (381) returns success when the asymmetric
\* decryption fails, an error when the signature does not validate and an
\* error when the payload is not a HandshakeKeyMessage; a call that returns
\* for such a message returns from that branch; and no statement of the
\* call up to and including the branch changes the key registry or the
\* forward cache or sends anything.
C22_AsymmetricPathOutcomes ==
    [][\A n \in Nodes : \A t \in Tasks :
          LET env == last'.arg.msg.Payload
              opens == OpenAsymmetric(env, PubKeyOf(n))
              handshake == opens /\ Validate(env) /\ env.payload.kind = "keymsg"
          IN /\ (Step(n, t, "381") /\ last'.of = "handlePssMsg") =>
                   /\ ~handshake => Ended
                   /\ ~opens => last'.ret = Nil
                   /\ (opens /\ ~Validate(env)) => last'.ret = "invalid signature"
                   /\ (opens /\ Validate(env) /\ env.payload.kind # "keymsg") =>
                          last'.ret = "invalid handshake msg"
                   /\ Ended => (last'.sends = << >> /\ last'.calls = << >>)
             /\ (/\ last'.op = "handlePssMsg" /\ last'.node = n /\ last'.t = t
                 /\ last'.arg.msg.To = n
                 /\ last'.ret \notin {Panic, Fatal, Deadlock, Exit}
                 /\ trySymKeys(St(n), env, 1) = 0 /\ ~handshake) =>
                    last'.pc = "381"
             /\ (/\ last'.of = "handlePssMsg" /\ last'.node = n /\ last'.t = t
                 /\ last'.pc \in {"344", "365", "367", "381"}) =>
                    (KeyState' = KeyState /\ fwdcache' = fwdcache /\ net' = net)]_vars
\* a badly signed message sealed to the node was refused by a node that
\* holds keys
C22_Witness ==
    /\ last.op = "handlePssMsg" /\ last.ret = "invalid signature"
    /\ last.arg.msg.Payload.key = PubKeyOf(last.node)
    /\ recvsymkeys[last.node] # << >>
    /\ Secured(last.node, NodeB, "T1")

\* C30: a validly signed handshake naming from = X installs the key it
\* carries as the outbound symkey of (X, topic) also when it was signed with
\* a key that is not X's.
C30_SenderNotBoundToSigner ==
    (HandshakeDone /\ last.arg.msg.Payload.Src # PubKeyOf(HsFrom)) => HsKeyInstalled

\* C31: the handshake reply is fire-and-forget: processing a valid handshake
\* from X on topic T leaves (X, T) secured and returns nil, also when the
\* reply could be forwarded to no peer.
C31_ReplyFireAndForget ==
    HandshakeDone =>
        (last.ret = Nil /\ Secured(last.node, HsFrom, HsTopic))
====
